---------------------------- MODULE Spec2Model ----------------------------
(***************************************************************************)
(* Model of the heart-rate device: beat detection in the four acquisition  *)
(* loops (core/hrm.py, ui/layout_animations.py, app/handle_hr.py,          *)
(* app/handle_hrv.py) and the Kubios cloud session (cloud/kubios.py,       *)
(* core/wifi_mqtt.py, ui/layout_common.py).                                *)
(*                                                                         *)
(* Three specifications share the variables:                               *)
(*   SpecAcq  the acquisition loops, one action per loop iteration;        *)
(*   SpecDet  the detectors of the cloud Collecting loop and of            *)
(*            measure_intervals applied to a whole sequence of readings;   *)
(*   Spec     the cloud session kubios_analysis with its recursion, the    *)
(*            shared slot kubios_result and the inbound callback.          *)
(***************************************************************************)
EXTENDS Integers, Sequences, FiniteSets, TLC

\* Python's None where a result, a JSON value or a dict is expected
None == [t |-> "none"]

(***************************************************************************)
(* Bounds of the model.                                                    *)
(***************************************************************************)
\* loop iterations of one acquisition window that read a sample
MaxSamples == 4
\* length of the reading sequences given to the detectors in SpecDet
MaxTrace == 5
\* rising edges in one collection of the cloud session
MaxBeats == 6
\* nested retries of kubios_analysis (its recursion depth above the first call)
MaxDepth == 2
\* times the user opens the KUBIOS menu item
MaxSessions == 2
\* samples read during the calibration window of a call of calibrate_threshold
MaxCalSamples == 3
\* length of the interval lists given to calculate_bpm
MaxBpmIntervals == 3
\* length of the interval lists given to format_kubios_payload
MaxPayload == 2
\* length of the interval lists given to calculate_hrv
MaxHrvIntervals == 4
\* the beats of one collection of the local HRV session
MaxHrvBeats == 3
\* the rounds of the send loop of the local HRV session after the first
MaxSendRetries == 1
\* the calls of save_to_history the model follows one by one
MaxSaves == 3

(***************************************************************************)
(* Program constants.                                                      *)
(***************************************************************************)
\* time.ticks_ms() wraps at this period; time.ticks_diff is taken modulo it
TICKS_PERIOD == 1073741824
\* calibrate_threshold(calibration_time_ms=2000)
calibration_time_ms == 2000
\* initial min_val of calibrate_threshold
ADC_MAX == 65535
\* the acquisition window of the handlers and of collect_ppi_data, in ms
WINDOW_MS == 30000
\* measure_intervals(duration_sec=10), in ms
MEASURE_MS == 10000
\* window.pop(0) when len(window) > 20
WINDOW_CAP == 20
\* accepted gaps: 250 < interval < 2000
MIN_GAP == 250
MAX_GAP == 2000
\* len(intervals) < 5 fails the validation of the cloud session
MIN_INTERVALS == 5
\* wait_for_kubios_result(timeout=10), in seconds
WAIT_TIMEOUT == 10
\* show_error_screen: for seconds in range(3, -1, -1), for _ in range(10)
ERROR_SECONDS == 4
ERROR_POLLS == 10
\* core.config (not part of the source tree): attempts of connect_wifi / connect_mqtt
MAX_WIFI_RETRIES == 2
MAX_MQTT_RETRIES == 2
\* MAC_ADDRESS of core.config (not in the source tree): the address of the
\* specification's example, as the sequence of its characters
MAC_ADDRESS ==
    <<"A", "A", ":", "B", "B", ":", "C", "C", ":", "D", "D", ":", "E", "E", ":", "F", "F">>
\* calculate_bpm: 60000
MS_PER_MINUTE == 60000
\* save_to_history keeps this many entries
HISTORY_CAP == 20
\* show_error_screen: time.sleep(0.1) after a poll, in ms
POLL_MS == 100
\* is_encoder_pressed: the debounce time, in ms
DEBOUNCE_MS == 300
\* handle_history shows this many entries at most
RECENT == 5

(***************************************************************************)
(* Inputs.                                                                 *)
(***************************************************************************)
\* ADC readings (read_u16)
Values == {20, 50, 90}
\* the samples one calibration window reads
CalWindows == {<<50, 50>>, <<20, 90>>, <<90, 20>>}
\* time that passes during one loop iteration (drawing and sleep), in ms;
\* the last one lets the window run out
Deltas == {125, 1000}
\* time.ticks_ms() when an acquisition starts (the second is close to the wrap)
StartTicks == {0, TICKS_PERIOD - 1100}

Min(a, b) == IF a < b THEN a ELSE b
Max(a, b) == IF a > b THEN a ELSE b

\* time.ticks_diff(a, b) of MicroPython: the signed difference modulo the period
ticks_diff(a, b) ==
    ((a - b + TICKS_PERIOD \div 2) % TICKS_PERIOD) - TICKS_PERIOD \div 2

\* time.ticks_ms() after d more milliseconds
ticks_add(t, d) == (t + d) % TICKS_PERIOD

\* a variant that takes the two limits as plausible too
PlausibleInclusive(interval) == MIN_GAP <= interval /\ interval <= MAX_GAP

\* 250 < interval < 2000
Plausible(interval) == MIN_GAP < interval /\ interval < MAX_GAP

RECURSIVE CalMin(_)
CalMin(samples) ==
    IF samples = <<>> THEN ADC_MAX
    ELSE Min(CalMin(Tail(samples)), Head(samples))

RECURSIVE CalMax(_)
CalMax(samples) ==
    IF samples = <<>> THEN 0
    ELSE Max(CalMax(Tail(samples)), Head(samples))

\* a variant that takes 0.7 of max_val, not of the range above min_val
TruncScaledMax(min_val, span) == {min_val + ((min_val + span) * 7) \div 10}

\* int(min_val + span * 0.7) for span >= 0.  The product is a float: where
\* span * 7 / 10 is a whole number k, the float product can lie just below k
\* (with double precision 90 * 0.7 is 62.99999999999999, with single precision
\* it is 63.0), so that int() gives k or k - 1 depending on the float width of
\* the build; elsewhere the fraction is at least 0.1 and int() gives the floor.
TruncScaled(min_val, span) ==
    LET k == (span * 7) \div 10
    IN  {min_val + k} \cup
        (IF span > 0 /\ (span * 7) % 10 = 0 THEN {min_val + k - 1} ELSE {})

\* a variant whose min_val starts at 0, not at 65535
calibrate_threshold_min0(samples) == TruncScaled(0, CalMax(samples))

\* calibrate_threshold over the samples read during the window (at least one):
\* the values int(min_val + (max_val - min_val) * 0.7) can take
calibrate_threshold(samples) ==
    TruncScaled(CalMin(samples), CalMax(samples) - CalMin(samples))


(***************************************************************************)
(* State.                                                                  *)
(***************************************************************************)
VARIABLES
    \* ---- acquisition loops (SpecAcq) ----
    path,         \* the acquisition function that runs: "hr", "hrv", "kubios", "measure"
    apc,          \* its position: "idle", "sampling", "done"
    ticks,        \* time.ticks_ms()
    start_time,   \* start / start_time of the running function
    threshold,    \* the calibrated threshold
    last_value,   \* last_value of the cloud loop and of measure_intervals
    value,        \* the value of the current loop iteration
    beat,         \* the beat flag read_live_signal returned in this iteration
    beat_times,   \* beat_times / beats / window: the beat timestamps
    intervals,    \* the accepted intervals
    nsamples,     \* loop iterations done in this window
    last_sample,  \* history: the last sample the sampler delivered (0 before the first)
    sampled,      \* history: the sampler delivered a sample in this iteration
    \* ---- detectors on a whole reading sequence (SpecDet) ----
    det_in,       \* [detector, threshold, start, readings]
    det_out,      \* [done, threshold, intervals]: the threshold used, the intervals returned
    \* ---- the cloud session (Spec) ----
    pc,            \* position of the innermost running kubios_analysis
    stack,         \* the enclosing invocations: where each called itself
    ppi,           \* the local intervals of the innermost kubios_analysis
    kubios_result, \* the shared slot of core/wifi_mqtt.py
    client,        \* the global client: "none", "unconnected", "connected", "subscribed"
    wait_elapsed,  \* time.time() - start in wait_for_kubios_result, in seconds (0
                   \* outside the wait and the step that takes its result)
    sessions,      \* calls of the handlers (handle_kubios, handle_basic_hrv) so far
    cycle,         \* history of the innermost invocation (one cycle of the session)
    \* ---- one call of a function on given arguments (SpecFn) ----
    call,          \* [fn, <its arguments>]
    ret,           \* [done, <what the call returned or raised>]
    \* ---- the history store ----
    history_file,  \* the list in history.json (empty when the file is missing)
    hrv_file,      \* hrv_analysis.json: [exists, records]
    saved,         \* history: the entries save_to_history appended, in order
    \* ---- the local HRV session (SpecHrv) ----
    hpc,           \* position of handle_basic_hrv
    hsess          \* its locals and the history of the session

acqVars == <<path, apc, ticks, start_time, threshold, last_value, value, beat,
             beat_times, intervals, nsamples, last_sample, sampled>>
detVars == <<det_in, det_out>>
sessVars == <<pc, stack, ppi, kubios_result, client, wait_elapsed, sessions, cycle>>
fnVars == <<call, ret>>
histVars == <<history_file, hrv_file, saved>>
hrvVars == <<hpc, hsess>>
vars == <<acqVars, detVars, sessVars, fnVars, histVars, hrvVars>>
\* what the actions of one specification leave alone
notAcq == <<detVars, sessVars, fnVars, histVars, hrvVars>>
notDet == <<acqVars, sessVars, fnVars, histVars, hrvVars>>
notSess == <<acqVars, detVars, fnVars, histVars, hrvVars>>
\* ... and a call of a function: all but the slot, which on_message writes
notFn == <<acqVars, detVars, pc, stack, ppi, client, wait_elapsed, sessions, cycle,
           histVars, hrvVars>>

(***************************************************************************)
(* Beat detection: one sample of each loop.                                *)
(***************************************************************************)
\* a variant that measures every gap from the first beat
AcceptGapFromFirst(bt, ivs) ==
    IF Len(bt) > 1
    THEN LET interval == ticks_diff(bt[Len(bt)], bt[1])
         IN  IF Plausible(interval) THEN Append(ivs, interval) ELSE ivs
    ELSE ivs

\* The accepted intervals after a beat was appended to bt.
AcceptGap(bt, ivs) ==
    IF Len(bt) > 1
    THEN LET interval == ticks_diff(bt[Len(bt)], bt[Len(bt) - 1])
         IN  IF Plausible(interval) THEN Append(ivs, interval) ELSE ivs
    ELSE ivs

\* a variant that updates last_value only when a beat fired
KubiosSampleStale(st, thr, v, now) ==
    IF st.last_value < thr /\ v >= thr
    THEN LET bt == Append(st.beat_times, now)
         IN  [beat_times |-> bt,
              intervals  |-> AcceptGap(bt, st.intervals),
              last_value |-> v]
    ELSE st

\* a variant that fires on the level of the sample, not on the edge
KubiosSampleLevel(st, thr, v, now) ==
    IF v >= thr
    THEN LET bt == Append(st.beat_times, now)
         IN  [beat_times |-> bt,
              intervals  |-> AcceptGap(bt, st.intervals),
              last_value |-> v]
    ELSE [st EXCEPT !.last_value = v]

\* One iteration of the cloud Collecting loop on the reading v taken at now.
\* st = [beat_times, intervals, last_value]
KubiosSample(st, thr, v, now) ==
    IF st.last_value < thr /\ v >= thr
    THEN LET bt == Append(st.beat_times, now)
         IN  [beat_times |-> bt,
              intervals  |-> AcceptGap(bt, st.intervals),
              last_value |-> v]
    ELSE [st EXCEPT !.last_value = v]

\* One iteration of measure_intervals on the reading v taken at now.
\* st = [window, last_value]
MeasureSample(st, thr, v, now) ==
    IF st.last_value < thr /\ v >= thr
    THEN LET w == Append(st.window, now)
         IN  [window     |-> IF Len(w) > WINDOW_CAP THEN Tail(w) ELSE w,
              last_value |-> v]
    ELSE [st EXCEPT !.last_value = v]

RECURSIVE WindowGaps(_, _)
\* [ticks_diff(window[i], window[i - 1]) for i in range(1, len(window))], from i on,
\* filtered by 250 < d < 2000
WindowGaps(window, i) ==
    IF i > Len(window) THEN <<>>
    ELSE LET d == ticks_diff(window[i], window[i - 1])
         IN  (IF Plausible(d) THEN <<d>> ELSE <<>>) \o WindowGaps(window, i + 1)

\* The list measure_intervals returns for the window it collected.
MeasureResult(window) ==
    IF Len(window) >= 2 THEN WindowGaps(window, 2) ELSE <<>>

\* what read_sample() returns: no new sample (None), or a reading
SamplerOut == {[new |-> FALSE, v |-> 0]} \cup {[new |-> TRUE, v |-> x] : x \in Values}

\* a variant that takes a tick without a sample for a reading at full scale
read_live_signal_full_scale(s, thr) ==
    IF ~s.new THEN <<ADC_MAX, ADC_MAX > thr>> ELSE <<s.v, s.v > thr>>

\* read_live_signal(threshold) when read_sample() returned s
read_live_signal(s, thr) ==
    IF ~s.new THEN <<0, FALSE>> ELSE <<s.v, s.v > thr>>

\* The beat branch of the loop of handle_measure_hr. st = [beats, intervals]
HrSample(st, b, now) ==
    IF b
    THEN LET bt == Append(st.beats, now)
         IN  [beats |-> bt, intervals |-> AcceptGap(bt, st.intervals)]
    ELSE st

\* The beat branch of the loop of handle_basic_hrv. st = [beats, intervals]
HrvSample(st, b, now) ==
    IF b
    THEN LET bt == Append(st.beats, now)
         IN  [beats |-> bt, intervals |-> AcceptGap(bt, st.intervals)]
    ELSE st

(***************************************************************************)
(* SpecAcq: the acquisition loops, one action per iteration.               *)
(***************************************************************************)
\* The time one iteration takes; the window runs out after the last sample
\* the model follows.
DeltasAt(n) ==
    IF call.fn = "pulse" THEN {call.step}
    ELSE IF n < MaxSamples THEN Deltas \cup {WINDOW_MS} ELSE {WINDOW_MS}

\* A regular pulse (SpecPulse): every call.period-th reading is high, and one
\* loop iteration takes call.step ms.
PulsePeriods == {2, 3}
PulseSteps == {125, 500}
PulseValue(n) == IF n % call.period = 0 THEN 90 ELSE 20

\* the readings pulse_sensor.read_u16() may give in iteration n
ValuesAt(n) == IF call.fn = "pulse" THEN {PulseValue(n)} ELSE Values

\* what read_sample() may return in iteration n
SamplerAt(n) ==
    IF call.fn = "pulse" THEN {[new |-> TRUE, v |-> PulseValue(n)]} ELSE SamplerOut

InWindow(len) == ticks_diff(ticks, start_time) < len

AcqInit ==
    /\ path = "none"
    /\ apc = "idle"
    /\ ticks \in StartTicks
    /\ start_time = 0
    /\ threshold = 0
    /\ last_value = 0
    /\ value = 0
    /\ beat = FALSE
    /\ beat_times = <<>>
    /\ intervals = <<>>
    /\ nsamples = 0
    /\ last_sample = 0
    /\ sampled = FALSE

\* What every acquisition function sets before its loop, given the window
\* calibrate_threshold read; startAfter: start is read after the calibration.
Begin(p, w, startAfter) ==
    /\ apc = "idle"
    /\ path' = p
    /\ apc' = "sampling"
    /\ threshold' \in calibrate_threshold(w)
    /\ ticks' = ticks_add(ticks, calibration_time_ms)
    /\ start_time' = IF startAfter THEN ticks' ELSE ticks
    /\ last_value' = 0
    /\ beat_times' = <<>>
    /\ intervals' = <<>>
    /\ UNCHANGED <<value, beat, nsamples, last_sample, sampled>>

\* show_countdown_animation_kubios: start, then calibrate_threshold
StartKubios ==
    /\ \E w \in CalWindows : Begin("kubios", w, FALSE)
    /\ UNCHANGED notAcq

\* measure_intervals: calibrate_threshold, then start_time
StartMeasure ==
    /\ \E w \in CalWindows : Begin("measure", w, TRUE)
    /\ UNCHANGED notAcq

\* handle_measure_hr: calibrate_threshold, then start_time
StartHr ==
    /\ \E w \in CalWindows : Begin("hr", w, TRUE)
    /\ UNCHANGED notAcq

\* handle_basic_hrv: calibrate_threshold, then start_time
StartHrv ==
    /\ \E w \in CalWindows : Begin("hrv", w, TRUE)
    /\ UNCHANGED notAcq

\* one iteration of the loop of show_countdown_animation_kubios
KubiosIter ==
    /\ apc = "sampling" /\ path = "kubios"
    /\ InWindow(WINDOW_MS)
    /\ \E v \in ValuesAt(nsamples + 1), d \in DeltasAt(nsamples + 1) :
          LET st == KubiosSample([beat_times |-> beat_times, intervals |-> intervals,
                                  last_value |-> last_value], threshold, v, ticks)
          IN  /\ value' = v
              /\ beat_times' = st.beat_times
              /\ intervals' = st.intervals
              /\ last_value' = st.last_value
              /\ last_sample' = v
              /\ sampled' = TRUE
              /\ ticks' = ticks_add(ticks, d)
    /\ nsamples' = nsamples + 1
    /\ UNCHANGED <<path, apc, start_time, threshold, beat>>
    /\ UNCHANGED notAcq

\* show_countdown_animation_kubios returns intervals
KubiosExit ==
    /\ apc = "sampling" /\ path = "kubios"
    /\ ~InWindow(WINDOW_MS)
    /\ apc' = "done"
    /\ UNCHANGED <<path, ticks, start_time, threshold, last_value, value, beat,
                   beat_times, intervals, nsamples, last_sample, sampled>>
    /\ UNCHANGED notAcq

\* one iteration of the loop of measure_intervals
MeasureIter ==
    /\ apc = "sampling" /\ path = "measure"
    /\ InWindow(MEASURE_MS)
    /\ \E v \in ValuesAt(nsamples + 1), d \in DeltasAt(nsamples + 1) :
          LET st == MeasureSample([window |-> beat_times, last_value |-> last_value],
                                  threshold, v, ticks)
          IN  /\ value' = v
              /\ beat_times' = st.window
              /\ last_value' = st.last_value
              /\ last_sample' = v
              /\ sampled' = TRUE
              /\ ticks' = ticks_add(ticks, d)
    /\ nsamples' = nsamples + 1
    /\ UNCHANGED <<path, apc, start_time, threshold, beat, intervals>>
    /\ UNCHANGED notAcq

\* measure_intervals computes and returns the filtered gaps of its window
MeasureExit ==
    /\ apc = "sampling" /\ path = "measure"
    /\ ~InWindow(MEASURE_MS)
    /\ apc' = "done"
    /\ intervals' = MeasureResult(beat_times)
    /\ UNCHANGED <<path, ticks, start_time, threshold, last_value, value, beat,
                   beat_times, nsamples, last_sample, sampled>>
    /\ UNCHANGED notAcq

\* one iteration of the loop of handle_measure_hr
HrIter ==
    /\ apc = "sampling" /\ path = "hr"
    /\ InWindow(WINDOW_MS)
    /\ \E s \in SamplerAt(nsamples + 1), d \in DeltasAt(nsamples + 1) :
          LET r  == read_live_signal(s, threshold)
              st == HrSample([beats |-> beat_times, intervals |-> intervals], r[2], ticks)
          IN  /\ value' = r[1]
              /\ beat' = r[2]
              /\ beat_times' = st.beats
              /\ intervals' = st.intervals
              /\ last_sample' = IF s.new THEN s.v ELSE last_sample
              /\ sampled' = s.new
              /\ ticks' = ticks_add(ticks, d)
    /\ nsamples' = nsamples + 1
    /\ UNCHANGED <<path, apc, start_time, threshold, last_value>>
    /\ UNCHANGED notAcq

\* handle_measure_hr leaves its loop
HrExit ==
    /\ apc = "sampling" /\ path = "hr"
    /\ ~InWindow(WINDOW_MS)
    /\ apc' = "done"
    /\ UNCHANGED <<path, ticks, start_time, threshold, last_value, value, beat,
                   beat_times, intervals, nsamples, last_sample, sampled>>
    /\ UNCHANGED notAcq

\* one iteration of the loop of handle_basic_hrv
HrvIter ==
    /\ apc = "sampling" /\ path = "hrv"
    /\ InWindow(WINDOW_MS)
    /\ \E s \in SamplerAt(nsamples + 1), d \in DeltasAt(nsamples + 1) :
          LET r  == read_live_signal(s, threshold)
              st == HrvSample([beats |-> beat_times, intervals |-> intervals], r[2], ticks)
          IN  /\ value' = r[1]
              /\ beat' = r[2]
              /\ beat_times' = st.beats
              /\ intervals' = st.intervals
              /\ last_sample' = IF s.new THEN s.v ELSE last_sample
              /\ sampled' = s.new
              /\ ticks' = ticks_add(ticks, d)
    /\ nsamples' = nsamples + 1
    /\ UNCHANGED <<path, apc, start_time, threshold, last_value>>
    /\ UNCHANGED notAcq

\* handle_basic_hrv leaves its loop
HrvExit ==
    /\ apc = "sampling" /\ path = "hrv"
    /\ ~InWindow(WINDOW_MS)
    /\ apc' = "done"
    /\ UNCHANGED <<path, ticks, start_time, threshold, last_value, value, beat,
                   beat_times, intervals, nsamples, last_sample, sampled>>
    /\ UNCHANGED notAcq

AcqNext ==
    \/ StartKubios \/ StartMeasure \/ StartHr \/ StartHrv
    \/ KubiosIter \/ KubiosExit
    \/ MeasureIter \/ MeasureExit
    \/ HrIter \/ HrExit
    \/ HrvIter \/ HrvExit

(***************************************************************************)
(* SpecDet: the two edge detectors run over a whole sequence of readings.  *)
(* A reading is [value, now]: the sample of one loop iteration and the     *)
(* clock of that iteration.                                                *)
(***************************************************************************)
\* sample values and sample spacings of the reading sequences
DetValues == {20, 90}
Spacings == {100, 600}

RECURSIVE SeqsUpTo(_, _)
\* the sequences over S of length 0..n
SeqsUpTo(S, n) ==
    IF n = 0 THEN {<<>>}
    ELSE LET shorter == SeqsUpTo(S, n - 1)
         IN  shorter \cup {Append(q, x) : q \in shorter, x \in S}

\* the readings of a loop that starts sampling at first and takes the values
\* vals, one every spacing milliseconds
Readings(vals, first, spacing) ==
    [i \in 1..Len(vals) |->
        [value |-> vals[i], now |-> ticks_add(first, (i - 1) * spacing)]]

RECURSIVE KubiosRun(_, _, _, _, _)
\* the loop of show_countdown_animation_kubios from reading i on
KubiosRun(st, thr, start, readings, i) ==
    IF i > Len(readings) \/ ~(ticks_diff(readings[i].now, start) < WINDOW_MS)
    THEN st
    ELSE KubiosRun(KubiosSample(st, thr, readings[i].value, readings[i].now),
                   thr, start, readings, i + 1)

\* show_countdown_animation_kubios(duration=30) entered at t0: the window
\* thr is what calibrate_threshold returned, vals what the loop reads
show_countdown_animation_kubios(t0, thr, vals, spacing) ==
    LET start == t0
        first == ticks_add(t0, calibration_time_ms)
    IN  KubiosRun([beat_times |-> <<>>, intervals |-> <<>>, last_value |-> 0],
                  thr, start, Readings(vals, first, spacing), 1).intervals

RECURSIVE MeasureRun(_, _, _, _, _)
\* the loop of measure_intervals from reading i on
MeasureRun(st, thr, start, readings, i) ==
    IF i > Len(readings) \/ ~(ticks_diff(readings[i].now, start) < MEASURE_MS)
    THEN st
    ELSE MeasureRun(MeasureSample(st, thr, readings[i].value, readings[i].now),
                    thr, start, readings, i + 1)

\* measure_intervals(duration_sec=10) entered at t0; thr is what
\* calibrate_threshold returned
measure_intervals(t0, thr, vals, spacing) ==
    LET start == ticks_add(t0, calibration_time_ms)
    IN  MeasureResult(MeasureRun([window |-> <<>>, last_value |-> 0],
                                 thr, start, Readings(vals, start, spacing), 1).window)

\* the acquisition variables while no acquisition loop is followed step by step
AcqIdle ==
    /\ path = "none"
    /\ apc = "idle"
    /\ ticks = 0
    /\ start_time = 0
    /\ threshold = 0
    /\ last_value = 0
    /\ value = 0
    /\ beat = FALSE
    /\ beat_times = <<>>
    /\ intervals = <<>>
    /\ nsamples = 0
    /\ last_sample = 0
    /\ sampled = FALSE

DetInputs ==
    [detector : {"kubios", "measure"},
     t0       : StartTicks,
     cal      : CalWindows,
     vals     : SeqsUpTo(DetValues, MaxTrace),
     spacing  : Spacings]

DetInit ==
    /\ det_in \in DetInputs
    /\ det_out = [done |-> FALSE, threshold |-> 0, intervals |-> <<>>]

DetVarsIdle ==
    /\ det_in = [detector |-> "none", t0 |-> 0, cal |-> <<>>, vals |-> <<>>, spacing |-> 0]
    /\ det_out = [done |-> FALSE, threshold |-> 0, intervals |-> <<>>]

\* the cloud Collecting loop on the input
DetKubios ==
    /\ ~det_out.done
    /\ det_in.detector = "kubios"
    /\ \E thr \in calibrate_threshold(det_in.cal) :
          det_out' = [done |-> TRUE, threshold |-> thr,
                      intervals |-> show_countdown_animation_kubios(
                                        det_in.t0, thr, det_in.vals, det_in.spacing)]
    /\ UNCHANGED det_in
    /\ UNCHANGED notDet

\* measure_intervals on the input
DetMeasure ==
    /\ ~det_out.done
    /\ det_in.detector = "measure"
    /\ \E thr \in calibrate_threshold(det_in.cal) :
          det_out' = [done |-> TRUE, threshold |-> thr,
                      intervals |-> measure_intervals(
                                        det_in.t0, thr, det_in.vals, det_in.spacing)]
    /\ UNCHANGED det_in
    /\ UNCHANGED notDet

DetNext == DetKubios \/ DetMeasure

(***************************************************************************)
(* The inbound callback on_message and the shared slot kubios_result.      *)
(* A JSON value is [t |-> "obj", f |-> <function from keys to values>],    *)
(* [t |-> "num", v |-> n] (an int), [t |-> "real", num, den] (the float     *)
(* num / den), [t |-> "list"] (with items where they matter),               *)
(* [t |-> "str"] (with v where it matters) or [t |-> "null"].              *)
(* A message is [enc |-> "bad"] (bytes that do not decode),                 *)
(* [enc |-> "text"] (text that is no JSON) or [enc |-> "json", v |-> value].*)
(***************************************************************************)
Num(n) == [t |-> "num", v |-> n]
Real(num, den) == [t |-> "real", num |-> num, den |-> den]
Obj(f) == [t |-> "obj", f |-> f]
JList == [t |-> "list"]
JNull == [t |-> "null"]

Has(o, k) == k \in DOMAIN o.f

\* a variant of dict.get(k) that gives 0 for a missing key
GetDefault0(o, k) ==
    IF Has(o, k)
    THEN (IF o.f[k].t = "null" THEN None ELSE o.f[k])
    ELSE Num(0)

\* dict.get(k): None for a missing key and for a JSON null
Get(o, k) ==
    IF Has(o, k) /\ o.f[k].t # "null" THEN o.f[k] ELSE None

\* dict.get(k, 0)
GetOr0(o, k) ==
    IF Has(o, k)
    THEN (IF o.f[k].t = "null" THEN None ELSE o.f[k])
    ELSE Num(0)

\* a variant that stores the result before the sanity check of its keys
on_message_unchecked(slot, msg) ==
    IF msg.enc # "json" THEN None
    ELSE LET parsed == msg.v IN
    IF parsed.t \in {"num", "null"} THEN None
    ELSE IF parsed.t \in {"list", "str"} THEN slot
    ELSE IF ~Has(parsed, "data") THEN slot
    ELSE LET raw_data == parsed.f["data"] IN
    IF raw_data.t # "obj" THEN slot
    ELSE LET analysis == IF Has(raw_data, "analysis")
                         THEN raw_data.f["analysis"] ELSE Obj(<<>>) IN
    IF analysis.t # "obj" THEN None
    ELSE [mean_hr  |-> Get(analysis, "mean_hr_bpm"),
          mean_ppi |-> Get(analysis, "mean_rr_ms"),
          rmssd    |-> Get(analysis, "rmssd_ms"),
          sdnn     |-> Get(analysis, "sdnn_ms"),
          sns      |-> GetOr0(analysis, "sns_index"),
          pns      |-> GetOr0(analysis, "pns_index")]

\* a variant whose handler leaves the slot alone: `except Exception: pass`
on_message_pass(slot, msg) ==
    IF msg.enc # "json" THEN slot                    \* decode() or loads() raised
    ELSE LET parsed == msg.v IN
    IF parsed.t \in {"num", "null"} THEN slot        \* "data" in parsed raised
    ELSE IF parsed.t \in {"list", "str"} THEN slot   \* "data" not in parsed
    ELSE IF ~Has(parsed, "data") THEN slot
    ELSE LET raw_data == parsed.f["data"] IN
    IF raw_data.t # "obj" THEN slot
    ELSE LET analysis == IF Has(raw_data, "analysis")
                         THEN raw_data.f["analysis"] ELSE Obj(<<>>) IN
    IF analysis.t # "obj" THEN slot                  \* analysis.get raised
    ELSE LET normalized == [mean_hr  |-> Get(analysis, "mean_hr_bpm"),
                            mean_ppi |-> Get(analysis, "mean_rr_ms"),
                            rmssd    |-> Get(analysis, "rmssd_ms"),
                            sdnn     |-> Get(analysis, "sdnn_ms"),
                            sns      |-> GetOr0(analysis, "sns_index"),
                            pns      |-> GetOr0(analysis, "pns_index")] IN
    IF \E key \in {"mean_hr", "mean_ppi", "rmssd", "sdnn"} : normalized[key] = None
    THEN slot
    ELSE normalized

\* on_message(topic, msg): the value of kubios_result after the callback,
\* given its value slot before
on_message(slot, msg) ==
    IF msg.enc # "json" THEN None                    \* decode() or loads() raised
    ELSE LET parsed == msg.v IN
    IF parsed.t \in {"num", "null"} THEN None        \* "data" in parsed raised
    ELSE IF parsed.t \in {"list", "str"} THEN slot   \* "data" not in parsed
    ELSE IF ~Has(parsed, "data") THEN slot
    ELSE LET raw_data == parsed.f["data"] IN
    IF raw_data.t # "obj" THEN slot
    ELSE LET analysis == IF Has(raw_data, "analysis")
                         THEN raw_data.f["analysis"] ELSE Obj(<<>>) IN
    IF analysis.t # "obj" THEN None                  \* analysis.get raised
    ELSE LET normalized == [mean_hr  |-> Get(analysis, "mean_hr_bpm"),
                            mean_ppi |-> Get(analysis, "mean_rr_ms"),
                            rmssd    |-> Get(analysis, "rmssd_ms"),
                            sdnn     |-> Get(analysis, "sdnn_ms"),
                            sns      |-> GetOr0(analysis, "sns_index"),
                            pns      |-> GetOr0(analysis, "pns_index")] IN
    IF \E key \in {"mean_hr", "mean_ppi", "rmssd", "sdnn"} : normalized[key] = None
    THEN slot
    ELSE normalized

\* the exception the try block of on_message raises on msg, "none" if none
TryException(msg) ==
    IF msg.enc = "bad" THEN "UnicodeError"           \* msg.decode()
    ELSE IF msg.enc = "text" THEN "ValueError"       \* ujson.loads
    ELSE LET parsed == msg.v IN
    IF parsed.t \in {"num", "null"} THEN "TypeError" \* "data" not in parsed
    ELSE IF parsed.t \in {"list", "str"} THEN "none"
    ELSE IF ~Has(parsed, "data") THEN "none"
    ELSE LET raw_data == parsed.f["data"] IN
    IF raw_data.t # "obj" THEN "none"
    ELSE IF Has(raw_data, "analysis") /\ raw_data.f["analysis"].t # "obj"
    THEN "AttributeError"                            \* analysis.get
    ELSE "none"

\* a variant of the handler that names one class: except ValueError
HandledValueErrorOnly(e) == e = "ValueError"

\* `except Exception`: the classes raised above all derive from Exception
Handled(e) == e \in {"UnicodeError", "ValueError", "TypeError", "AttributeError"}

\* the exception on_message raises to the context that called it, "none" if none
on_message_raises(msg) ==
    LET e == TryException(msg)
    IN  IF e = "none" \/ Handled(e) THEN "none" ELSE e

\* the analysis objects of the responses the model delivers
AnalysisFull ==
    ("mean_hr_bpm" :> Num(75)) @@ ("mean_rr_ms" :> Num(800)) @@ ("rmssd_ms" :> Num(42))
    @@ ("sdnn_ms" :> Num(51)) @@ ("sns_index" :> Num(1)) @@ ("pns_index" :> Num(2))
AnalysisNoIdx ==
    ("mean_hr_bpm" :> Num(60)) @@ ("mean_rr_ms" :> Num(1000)) @@ ("rmssd_ms" :> Num(30))
    @@ ("sdnn_ms" :> Num(35))
AnalysisMissing ==
    ("mean_hr_bpm" :> Num(60)) @@ ("mean_rr_ms" :> Num(1000)) @@ ("sdnn_ms" :> Num(35))
AnalysisNullKey ==
    ("mean_hr_bpm" :> Num(60)) @@ ("mean_rr_ms" :> JNull) @@ ("rmssd_ms" :> Num(30))
    @@ ("sdnn_ms" :> Num(35))
\* floats, a negative index among them
AnalysisFloat ==
    ("mean_hr_bpm" :> Real(145, 2)) @@ ("mean_rr_ms" :> Real(8276, 10))
    @@ ("rmssd_ms" :> Real(85, 2)) @@ ("sdnn_ms" :> Real(514, 10))
    @@ ("sns_index" :> Real(13, 10)) @@ ("pns_index" :> Real(0 - 7, 10))
\* an index the service could not compute
AnalysisNullIdx ==
    ("mean_hr_bpm" :> Num(60)) @@ ("mean_rr_ms" :> Num(1000)) @@ ("rmssd_ms" :> Num(30))
    @@ ("sdnn_ms" :> Num(35)) @@ ("sns_index" :> JNull) @@ ("pns_index" :> Num(1))

Response(analysis) ==
    [enc |-> "json", v |-> Obj("data" :> Obj("analysis" :> analysis))]

MsgFull == Response(Obj(AnalysisFull))
MsgNoIdx == Response(Obj(AnalysisNoIdx))
MsgMissing == Response(Obj(AnalysisMissing))
MsgNullKey == Response(Obj(AnalysisNullKey))
MsgFloat == Response(Obj(AnalysisFloat))
MsgNullIdx == Response(Obj(AnalysisNullIdx))
MsgAnalysisList == Response(JList)
MsgNoAnalysis == [enc |-> "json", v |-> Obj("data" :> Obj("status" :> Num(1)))]
MsgTopList == [enc |-> "json", v |-> JList]
MsgNoData == [enc |-> "json", v |-> Obj("status" :> Num(1))]
MsgDataList == [enc |-> "json", v |-> Obj("data" :> JList)]
MsgTopNum == [enc |-> "json", v |-> Num(7)]
MsgText == [enc |-> "text"]
MsgBad == [enc |-> "bad"]

\* the messages the broker may deliver to the callback
Inbound == {MsgFull, MsgNoIdx, MsgFloat, MsgNullIdx,
            MsgMissing, MsgNullKey, MsgAnalysisList, MsgNoAnalysis,
            MsgNoData, MsgDataList, MsgTopList, MsgTopNum, MsgText, MsgBad}

(***************************************************************************)
(* The connectivity functions of core/wifi_mqtt.py.                        *)
(***************************************************************************)
\* connect_wifi: outs[i] is wlan.isconnected() at the end of attempt i
connect_wifi(outs) == \E i \in 1..MAX_WIFI_RETRIES : outs[i]

WifiOutcomes == [1..MAX_WIFI_RETRIES -> BOOLEAN]

\* the exception of a failed attempt: client.connect raises OSError (the
\* socket), client.subscribe raises MQTTException (the broker refuses)
MqttException(out) == IF out = "connect_raises" THEN "OSError" ELSE "MQTTException"

\* a variant of the handler that names one class: except OSError
MqttHandledOSErrorOnly(e) == e = "OSError"

\* `except Exception` in the loop of connect_mqtt
MqttHandled(e) == e \in {"OSError", "MQTTException"}

RECURSIVE MqttAttempts(_, _, _)
\* the loop of connect_mqtt from attempt i on; status is the state of the
\* client the attempts so far left
MqttAttempts(outs, i, status) ==
    IF i > MAX_MQTT_RETRIES
    THEN [ret |-> FALSE, client |-> status, attempts |-> i - 1, raised |-> "none"]
    ELSE IF outs[i] = "ok"
    THEN [ret |-> TRUE, client |-> "subscribed", attempts |-> i, raised |-> "none"]
    ELSE LET left == IF outs[i] = "subscribe_raises" THEN "connected" ELSE "unconnected"
         IN  IF MqttHandled(MqttException(outs[i]))
             THEN MqttAttempts(outs, i + 1, left)
             ELSE [ret |-> FALSE, client |-> left, attempts |-> i,
                   raised |-> MqttException(outs[i])]

\* connect_mqtt(): a new client, then the attempts; outs[i] says what attempt i
\* does: "ok", "connect_raises" or "subscribe_raises"
connect_mqtt(outs) == MqttAttempts(outs, 1, "unconnected")

MqttOutcomes == [1..MAX_MQTT_RETRIES -> {"ok", "connect_raises", "subscribe_raises"}]

(***************************************************************************)
(* calculate_hrv.  Its results are floats; the model holds the real number *)
(* a float stands for: [k |-> "int", num |-> n, den |-> 1] is the int n,   *)
(* [k |-> "ratio", num, den] the float num / den, [k |-> "root", num, den]  *)
(* the float (num / den) ** 0.5.                                           *)
(***************************************************************************)
IntVal(n) == [k |-> "int", num |-> n, den |-> 1]
Ratio(num, den) == [k |-> "ratio", num |-> num, den |-> den]
Root(num, den) == [k |-> "root", num |-> num, den |-> den]

RECURSIVE Sum(_)
Sum(q) == IF q = <<>> THEN 0 ELSE Head(q) + Sum(Tail(q))

RECURSIVE SumDiffs(_, _)
\* a variant that does not square the successive differences
SumDiffs(ivs, i) ==
    IF i > Len(ivs) THEN 0
    ELSE (ivs[i] - ivs[i - 1]) + SumDiffs(ivs, i + 1)

RECURSIVE SumSqDiffs(_, _)
\* sum((intervals[i] - intervals[i - 1]) ** 2 for i in range(1, len(intervals))),
\* from the index i of the model on
SumSqDiffs(ivs, i) ==
    IF i > Len(ivs) THEN 0
    ELSE (ivs[i] - ivs[i - 1]) * (ivs[i] - ivs[i - 1]) + SumSqDiffs(ivs, i + 1)

RECURSIVE SumSqDevFromPrev(_, _)
\* a variant that takes each deviation from the interval before, not from the mean
SumSqDevFromPrev(ivs, i) ==
    IF i > Len(ivs) THEN 0
    ELSE LET prev == IF i = 1 THEN ivs[1] ELSE ivs[i - 1]
         IN  Len(ivs) * Len(ivs) * (ivs[i] - prev) * (ivs[i] - prev)
             + SumSqDevFromPrev(ivs, i + 1)

RECURSIVE SumSqDev(_, _)
\* sum((x - mean_ppi) ** 2 for x in intervals) times len ** 2, from index i on:
\* x - mean_ppi is (len * x - sum) / len
SumSqDev(ivs, i) ==
    IF i > Len(ivs) THEN 0
    ELSE LET d == Len(ivs) * ivs[i] - Sum(ivs)
         IN  d * d + SumSqDev(ivs, i + 1)

\* a variant with the population denominator
DenominatorN(ivs) == Len(ivs)

\* the denominator of both variances: len(intervals) - 1
Denominator(ivs) == Len(ivs) - 1

\* calculate_hrv(intervals)
calculate_hrv(ivs) ==
    IF Len(ivs) < 2
    THEN [mean_hr |-> IntVal(0), mean_ppi |-> IntVal(0), rmssd |-> IntVal(0), sdnn |-> IntVal(0)]
    ELSE [mean_ppi |-> Ratio(Sum(ivs), Len(ivs)),
          mean_hr  |-> Ratio(MS_PER_MINUTE * Len(ivs), Sum(ivs)),
          rmssd    |-> Root(SumSqDiffs(ivs, 2), Denominator(ivs)),
          sdnn     |-> Root(SumSqDev(ivs, 1), Len(ivs) * Len(ivs) * Denominator(ivs))]

\* a variant of str.replace that removes the first colon only
mac_first_colon_removed(mac) ==
    LET firsts == {i \in 1..Len(mac) : mac[i] = ":" /\ \A j \in 1..(i - 1) : mac[j] # ":"}
    IN  IF firsts = {} THEN mac
        ELSE LET i == CHOOSE i \in firsts : TRUE
             IN  SubSeq(mac, 1, i - 1) \o SubSeq(mac, i + 1, Len(mac))

\* MAC_ADDRESS.replace(":", ""); a string is the sequence of its characters
mac_no_colons(mac) ==
    LET NotColon(c) == c # ":" IN SelectSeq(mac, NotColon)

\* format_kubios_payload(ppi_list), mac being the MAC_ADDRESS of core.config
format_kubios_payload(mac, ppi_list) ==
    [type     |-> "RRI",
     mac      |-> mac_no_colons(mac),
     data     |-> ppi_list,
     analysis |-> [type |-> "readiness"]]

Str(s) == [t |-> "str", v |-> s]
\* a JSON array of numbers
JArr(items) == [t |-> "list", items |-> [i \in 1..Len(items) |-> Num(items[i])]]

\* ujson.dumps(payload_dict) of a request: the JSON object of the text
ujson_dumps(d) ==
    Obj(("type" :> Str(d.type)) @@ ("mac" :> Str(d.mac)) @@ ("data" :> JArr(d.data))
        @@ ("analysis" :> Obj("type" :> Str(d.analysis.type))))

\* a variant that serialises the list it is given, unwrapped
publish_payload_raw(rr_intervals) == JArr(rr_intervals)

\* publish_json(topic, rr_intervals): the payload given to client.publish
publish_payload(rr_intervals) ==
    ujson_dumps(format_kubios_payload(MAC_ADDRESS, rr_intervals))

\* publish_json(topic, rr_intervals): client.publish is called unless client is None
publish_json(c) == IF c # "none" THEN "publish" ELSE "not connected"

\* show_error_screen(): p is the poll (counted from 0) at which
\* is_encoder_pressed() first holds, ERROR_SECONDS * ERROR_POLLS if at none
show_error_screen(p) ==
    IF p < ERROR_SECONDS * ERROR_POLLS THEN "retry" ELSE "exit"

PressPolls == {0, ERROR_SECONDS * ERROR_POLLS - 1, ERROR_SECONDS * ERROR_POLLS}

\* a variant of round() that cuts the fraction off
RoundDown(num, den) == num \div den

\* round(num / den) for num >= 0 and den > 0: the nearest integer, a tie going
\* to the even one
round(num, den) ==
    LET q == num \div den
        r == num % den
    IN  IF 2 * r < den THEN q
        ELSE IF 2 * r > den THEN q + 1
        ELSE IF q % 2 = 0 THEN q ELSE q + 1

(***************************************************************************)
(* The history store of history/history_utils.py.  A dict is a function    *)
(* from its keys to its values.                                            *)
(***************************************************************************)
\* time.localtime(): <<year, month, day, hour, minute>> of the tuple
LocalTimes == {<<2025, 1, 31, 23, 59>>, <<2025, 2, 1, 0, 0>>}
\* ... at the end of the sessions the model follows
SessionTimes == {<<2025, 1, 31, 23, 59>>}

\* "{:02}.{:02}.{:04} {:02}:{:02}".format(day, month, year, hour, minute): the
\* string is given by the numbers it shows, in the order it shows them
format_timestamp(lt) == [t |-> "str", shows |-> <<lt[3], lt[2], lt[1], lt[4], lt[5]>>]

\* the keys save_to_history rounds
RoundedKeys == {"mean_hr", "mean_ppi", "rmssd", "sdnn", "sns", "pns"}

\* round(v) returns: v is an int or a float
Roundable(v) == v.t \in {"num", "real"}

\* round(v) of an int or a float: an int
py_round(v) ==
    IF v.t = "num" THEN v
    ELSE Num(IF v.num >= 0 THEN round(v.num, v.den) ELSE 0 - round(0 - v.num, v.den))

\* a variant that keeps the oldest entries: history[:20]
first_entries(history) ==
    IF Len(history) > HISTORY_CAP THEN SubSeq(history, 1, HISTORY_CAP) ELSE history

\* if len(history) > 20: history = history[-20:]
last_entries(history) ==
    IF Len(history) > HISTORY_CAP
    THEN SubSeq(history, Len(history) - HISTORY_CAP + 1, Len(history))
    ELSE history

\* data with data[key] = v
SetKey(data, key, v) ==
    [k \in DOMAIN data \cup {key} |-> IF k = key THEN v ELSE data[k]]

\* save_to_history(data) at local time lt, history being the list in
\* history.json (the empty list when the file is missing): the list the file
\* holds afterwards and the record appended; round() of a value that is no
\* number raises before anything is written
save_to_history(history, data, lt) ==
    LET stamped == SetKey(data, "timestamp", format_timestamp(lt))
        entry   == [k \in DOMAIN stamped |->
                      IF k \in RoundedKeys THEN py_round(stamped[k]) ELSE stamped[k]]
    IN  IF \E k \in RoundedKeys \cap DOMAIN data : ~Roundable(data[k])
        THEN [raised |-> TRUE, history |-> history, entry |-> stamped]
        ELSE [raised |-> FALSE, history |-> last_entries(Append(history, entry)),
              entry |-> entry]

\* hrv_analysis.json: missing, or a list of records
NoFile == [exists |-> FALSE, records |-> <<>>]
FileOf(records) == [exists |-> TRUE, records |-> records]

\* append_to_hrv_history(data) at local time lt: the file afterwards and the
\* dict data afterwards; open(..., "r") of a missing file raises and the
\* handler prints
append_to_hrv_history(file, data, lt) ==
    IF ~file.exists THEN [file |-> file, data |-> data, stored |-> FALSE]
    ELSE LET stamped == SetKey(data, "timestamp", format_timestamp(lt))
         IN  [file   |-> FileOf(Append(file.records, stamped)),
              data   |-> stamped,
              stored |-> TRUE]

\* handle_kubios_response(result): display_data, the call of save_to_history
\* and whether the handler showed the error screen
handle_kubios_response(result, history, lt) ==
    LET display_data ==
            ("mean_hr" :> result.mean_hr) @@ ("mean_ppi" :> result.mean_ppi)
            @@ ("rmssd" :> result.rmssd) @@ ("sdnn" :> result.sdnn)
            @@ ("sns" :> result.sns) @@ ("pns" :> result.pns)
        save == save_to_history(history, display_data, lt)
    IN  [handed |-> display_data, history |-> save.history, entry |-> save.entry,
         stored |-> ~save.raised, error_screen |-> save.raised]

(***************************************************************************)
(* Spec: the cloud session.                                                *)
(***************************************************************************)
FreshCycle ==
    [pressed       |-> FALSE,   \* wait_for_encoder_press returned
     collected     |-> FALSE,   \* collect_ppi_data returned
     collected_ivs |-> <<>>,    \* ... this list
     net           |-> {},      \* the network operations issued
     wifi_ok       |-> FALSE,   \* connect_wifi returned True
     mqtt_ok       |-> FALSE,   \* connect_mqtt returned True
     published     |-> <<>>,    \* the interval lists given to publish_json
     wire          |-> <<>>,    \* the messages given to client.publish
     deposited     |-> {},      \* the results on_message put into the slot during the wait
     returned      |-> None,    \* what wait_for_kubios_result returned
     exc           |-> "none",  \* the step that raised
     timeout       |-> FALSE,   \* the wait returned None
     handed        |-> <<>>,    \* the calls of save_to_history: [data, stored, entry]
     choice        |-> "none"]  \* what show_error_screen returned

SessIdle ==
    /\ pc = "menu"
    /\ stack = <<>>
    /\ ppi = <<>>
    /\ kubios_result = None
    /\ client = "none"
    /\ wait_elapsed = 0
    /\ sessions = 0
    /\ cycle = FreshCycle

\* the session variables but the slot, before any session
SessRest ==
    /\ pc = "menu"
    /\ stack = <<>>
    /\ ppi = <<>>
    /\ client = "none"
    /\ wait_elapsed = 0
    /\ sessions = 0
    /\ cycle = FreshCycle

\* no function call is followed
FnIdle ==
    /\ call = [fn |-> "none"]
    /\ ret = [done |-> FALSE]

\* the locals of handle_basic_hrv at its entry, and the history of the session
FreshHrv ==
    [pressed     |-> FALSE,   \* the wait for the button ended
     collections |-> 0,       \* runs of the collection loop
     intervals   |-> <<>>,    \* intervals
     computed    |-> 0,       \* calls of calculate_hrv
     data        |-> None,    \* data
     handed      |-> <<>>,    \* the calls of append_to_hrv_history: [data, stored, entry]
     net         |-> <<>>,    \* the network operations issued, in order
     published   |-> <<>>,    \* the dicts given to publish_json
     feedback    |-> <<>>,    \* what the calls of show_error_screen returned
     retries     |-> 0,       \* rounds of the send loop after the first
     shown       |-> FALSE]   \* show_hrv_screen was called

\* nothing was saved yet
HistIdle ==
    /\ history_file = <<>>
    /\ hrv_file = NoFile
    /\ saved = <<>>

\* handle_basic_hrv does not run
HrvIdle ==
    /\ hpc = "menu"
    /\ hsess = FreshHrv

\* a variant with the floor of the local HRV path (2 intervals)
ValidatedLoose(ivs) == ~(Len(ivs) < 2)

\* validation of the collected intervals: not (len(intervals) < 5)
Validated(ivs) == ~(Len(ivs) < MIN_INTERVALS)

\* a variant without the handler: the exception leaves kubios_analysis
OnExceptionPropagates == "propagated"

\* where `except Exception:` of kubios_analysis takes an exception of its try block
OnException == "error_except"

\* where the else branch of `if result:` takes a wait that returned None
OnTimeout == "error_timeout"

\* a variant that resends: the retry goes on at the Sending step with the old list
RetryResend(cur_ppi) == [pc |-> "wifi", ppi |-> cur_ppi]

\* the invocation a retry starts: kubios_analysis() called again, from its top
RetryFrame(cur_ppi) == [pc |-> "await_start", ppi |-> <<>>]

\* the readings of a collection with n rising edges, one sample every half gap
Alternating(n) ==
    [i \in 1..(IF n = 0 THEN 0 ELSE 2 * n - 1) |-> IF i % 2 = 1 THEN 90 ELSE 20]

HalfGaps == {300, 500}

CollectInputs ==
    {[t0 |-> 0, cal |-> <<20, 90>>, vals |-> Alternating(n), spacing |-> h] :
        n \in 0..MaxBeats, h \in HalfGaps}

\* app.py dispatches to handle_kubios, which calls kubios_analysis
HandleKubios ==
    /\ pc = "menu"
    /\ hpc = "menu"
    /\ sessions < MaxSessions
    /\ sessions' = sessions + 1
    /\ pc' = "await_start"
    /\ ppi' = <<>>
    /\ cycle' = FreshCycle
    /\ UNCHANGED <<stack, kubios_result, client, wait_elapsed>>
    /\ UNCHANGED notSess

\* wait_for_encoder_press() returns: the user pressed the button
PressStart ==
    /\ pc = "await_start"
    /\ pc' = "collecting"
    /\ cycle' = [cycle EXCEPT !.pressed = TRUE]
    /\ UNCHANGED <<stack, ppi, kubios_result, client, wait_elapsed, sessions>>
    /\ UNCHANGED notSess

\* intervals = collect_ppi_data(duration=30)
Collect ==
    /\ pc = "collecting"
    /\ \E in \in CollectInputs : \E thr \in calibrate_threshold(in.cal) :
          /\ ppi' = show_countdown_animation_kubios(in.t0, thr, in.vals, in.spacing)
          /\ cycle' = [cycle EXCEPT !.collected = TRUE, !.collected_ivs = ppi']
    /\ pc' = "validating"
    /\ UNCHANGED <<stack, kubios_result, client, wait_elapsed, sessions>>
    /\ UNCHANGED notSess

\* if len(intervals) < 5: show_error_screen(); return
ValidateFail ==
    /\ pc = "validating"
    /\ ~Validated(ppi)
    /\ pc' = "error_validation"
    /\ UNCHANGED <<stack, ppi, kubios_result, client, wait_elapsed, sessions, cycle>>
    /\ UNCHANGED notSess

\* otherwise: format the payload, show the sending screen, go on to the network
ValidateOk ==
    /\ pc = "validating"
    /\ Validated(ppi)
    /\ pc' = "wifi"
    /\ UNCHANGED <<stack, ppi, kubios_result, client, wait_elapsed, sessions, cycle>>
    /\ UNCHANGED notSess

\* show_error_screen() after the failed validation; its result is not used
ErrorValidation ==
    /\ pc = "error_validation"
    /\ \E p \in PressPolls :
          cycle' = [cycle EXCEPT !.choice = show_error_screen(p)]
    /\ pc' = "unwinding"
    /\ UNCHANGED <<stack, ppi, kubios_result, client, wait_elapsed, sessions>>
    /\ UNCHANGED notSess

\* setup_wifi_and_mqtt: connect_wifi returned True
WifiOk ==
    /\ pc = "wifi"
    /\ \E outs \in WifiOutcomes : connect_wifi(outs)
    /\ pc' = "mqtt"
    /\ cycle' = [cycle EXCEPT !.net = @ \cup {"wifi"}, !.wifi_ok = TRUE]
    /\ UNCHANGED <<stack, ppi, kubios_result, client, wait_elapsed, sessions>>
    /\ UNCHANGED notSess

\* setup_wifi_and_mqtt: connect_wifi returned False: raise Exception
WifiFail ==
    /\ pc = "wifi"
    /\ \E outs \in WifiOutcomes : ~connect_wifi(outs)
    /\ pc' = OnException
    /\ cycle' = [cycle EXCEPT !.net = @ \cup {"wifi"}, !.exc = "wifi"]
    /\ UNCHANGED <<stack, ppi, kubios_result, client, wait_elapsed, sessions>>
    /\ UNCHANGED notSess

\* connect_wifi itself raises (the WLAN driver)
WifiRaises ==
    /\ pc = "wifi"
    /\ pc' = OnException
    /\ cycle' = [cycle EXCEPT !.net = @ \cup {"wifi"}, !.exc = "wifi"]
    /\ UNCHANGED <<stack, ppi, kubios_result, client, wait_elapsed, sessions>>
    /\ UNCHANGED notSess

\* setup_wifi_and_mqtt: wifi.connect_mqtt(), its result dropped
MqttConnect ==
    /\ pc = "mqtt"
    /\ \E outs \in MqttOutcomes :
          LET r == connect_mqtt(outs)
          IN  /\ client' = r.client
              /\ cycle' = [cycle EXCEPT !.net = @ \cup {"mqtt"}, !.mqtt_ok = r.ret]
    /\ pc' = "publish"
    /\ UNCHANGED <<stack, ppi, kubios_result, wait_elapsed, sessions>>
    /\ UNCHANGED notSess

\* publish_json("kubios/request", intervals): client.publish returns
PublishOk ==
    /\ pc = "publish"
    /\ publish_json(client) = "publish"
    /\ client \in {"connected", "subscribed"}
    /\ pc' = "waiting"
    /\ wait_elapsed' = 0
    /\ cycle' = [cycle EXCEPT !.net = @ \cup {"publish", "wait"},
                              !.published = Append(@, ppi),
                              !.wire = Append(@, [topic   |-> "kubios/request",
                                                  payload |-> publish_payload(ppi)])]
    /\ UNCHANGED <<stack, ppi, kubios_result, client, sessions>>
    /\ UNCHANGED notSess

\* publish_json("kubios/request", intervals): client.publish raises
PublishRaises ==
    /\ pc = "publish"
    /\ publish_json(client) = "publish"
    /\ pc' = OnException
    /\ cycle' = [cycle EXCEPT !.net = @ \cup {"publish"},
                              !.published = Append(@, ppi),
                              !.wire = Append(@, [topic   |-> "kubios/request",
                                                  payload |-> publish_payload(ppi)]),
                              !.exc = "publish"]
    /\ UNCHANGED <<stack, ppi, kubios_result, client, wait_elapsed, sessions>>
    /\ UNCHANGED notSess

\* one round of the loop of wait_for_kubios_result: check_msg() runs the
\* callback on a message if one arrived, then the slot is read
WaitPoll ==
    /\ pc = "waiting"
    /\ wait_elapsed < WAIT_TIMEOUT
    /\ \E arrived \in BOOLEAN, m \in Inbound, d \in {0, 1} :
          /\ arrived => client = "subscribed"
          /\ kubios_result' = IF arrived THEN on_message(kubios_result, m)
                              ELSE kubios_result
          /\ IF kubios_result' # None
             THEN /\ pc' = "success"
                  /\ wait_elapsed' = wait_elapsed
                  /\ cycle' = [cycle EXCEPT
                        !.returned = kubios_result',
                        !.deposited = IF arrived /\ on_message(None, m) # None
                                      THEN @ \cup {kubios_result'} ELSE @]
             ELSE /\ pc' = "waiting"
                  /\ wait_elapsed' = wait_elapsed + d
                  /\ cycle' = cycle
    /\ UNCHANGED <<stack, ppi, client, sessions>>
    /\ UNCHANGED notSess

\* client.check_msg() raises (the connection broke)
WaitRaises ==
    /\ pc = "waiting"
    /\ wait_elapsed < WAIT_TIMEOUT
    /\ pc' = OnException
    /\ cycle' = [cycle EXCEPT !.exc = "wait"]
    /\ UNCHANGED <<stack, ppi, kubios_result, client, wait_elapsed, sessions>>
    /\ UNCHANGED notSess

\* a variant that gives up at any round of the loop
WaitTimeoutEarly ==
    /\ pc = "waiting"
    /\ pc' = OnTimeout
    /\ cycle' = [cycle EXCEPT !.timeout = TRUE]
    /\ UNCHANGED <<stack, ppi, kubios_result, client, wait_elapsed, sessions>>
    /\ UNCHANGED notSess

\* a variant without the timeout: the loop goes on waiting
WaitForever ==
    /\ pc = "waiting"
    /\ ~(wait_elapsed < WAIT_TIMEOUT)
    /\ UNCHANGED <<pc, stack, ppi, kubios_result, client, wait_elapsed, sessions, cycle>>
    /\ UNCHANGED notSess

\* the loop of wait_for_kubios_result ends: return None
WaitTimeout ==
    /\ pc = "waiting"
    /\ ~(wait_elapsed < WAIT_TIMEOUT)
    /\ pc' = OnTimeout
    /\ cycle' = [cycle EXCEPT !.timeout = TRUE]
    /\ UNCHANGED <<stack, ppi, kubios_result, client, wait_elapsed, sessions>>
    /\ UNCHANGED notSess

\* handle_kubios_response(result), then kubios_analysis returns
Success ==
    /\ pc = "success"
    /\ \E lt \in SessionTimes :
          LET r == handle_kubios_response(cycle.returned, history_file, lt)
          IN  /\ history_file' = r.history
              /\ saved' = IF r.stored THEN Append(saved, r.entry) ELSE saved
              /\ cycle' = [cycle EXCEPT !.handed = Append(@, [data   |-> r.handed,
                                                              stored |-> r.stored,
                                                              entry  |-> r.entry])]
    /\ pc' = "unwinding"
    /\ wait_elapsed' = 0
    /\ UNCHANGED <<stack, ppi, kubios_result, client, sessions>>
    /\ UNCHANGED <<acqVars, detVars, fnVars, hrv_file, hrvVars>>

\* user_choice = show_error_screen() at site ("try": the else branch of
\* `if result:`, "except": the handler); retry calls kubios_analysis() again
Decide(site) ==
    \E p \in PressPolls :
       LET user_choice == show_error_screen(p)
       IN  IF user_choice = "retry"
           THEN /\ Len(stack) < MaxDepth
                /\ stack' = Append(stack, site)
                /\ pc' = RetryFrame(ppi).pc
                /\ ppi' = RetryFrame(ppi).ppi
                /\ cycle' = FreshCycle
           ELSE /\ stack' = stack
                /\ pc' = "unwinding"
                /\ ppi' = ppi
                /\ cycle' = [cycle EXCEPT !.choice = user_choice]

\* the retry/exit decision after a wait that timed out
ErrorTimeout ==
    /\ pc = "error_timeout"
    /\ Decide("try")
    /\ wait_elapsed' = 0
    /\ UNCHANGED <<kubios_result, client, sessions>>
    /\ UNCHANGED notSess

\* the retry/exit decision of the exception handler
ErrorExcept ==
    /\ pc = "error_except"
    /\ Decide("except")
    /\ wait_elapsed' = 0
    /\ UNCHANGED <<kubios_result, client, sessions>>
    /\ UNCHANGED notSess

\* a variant in which the invocation that called itself starts over once the
\* nested one returned
UnwindStartsOver ==
    /\ pc = "unwinding"
    /\ stack # <<>>
    /\ stack' = SubSeq(stack, 1, Len(stack) - 1)
    /\ pc' = "await_start"
    /\ UNCHANGED <<ppi, kubios_result, client, wait_elapsed, sessions, cycle>>
    /\ UNCHANGED notSess

\* a nested kubios_analysis returned: the invocation that called it returns too
Unwind ==
    /\ pc = "unwinding"
    /\ stack # <<>>
    /\ stack' = SubSeq(stack, 1, Len(stack) - 1)
    /\ UNCHANGED <<pc, ppi, kubios_result, client, wait_elapsed, sessions, cycle>>
    /\ UNCHANGED notSess

\* the first kubios_analysis returned: handle_kubios shows the menu
ReturnToMenu ==
    /\ pc = "unwinding"
    /\ stack = <<>>
    /\ pc' = "menu"
    /\ ppi' = <<>>
    /\ cycle' = FreshCycle
    /\ UNCHANGED <<stack, kubios_result, client, wait_elapsed, sessions>>
    /\ UNCHANGED notSess

SessNext ==
    \/ HandleKubios \/ PressStart \/ Collect
    \/ ValidateFail \/ ValidateOk \/ ErrorValidation
    \/ WifiOk \/ WifiFail \/ WifiRaises
    \/ MqttConnect
    \/ PublishOk \/ PublishRaises
    \/ WaitPoll \/ WaitRaises \/ WaitTimeout
    \/ Success
    \/ ErrorTimeout \/ ErrorExcept
    \/ Unwind \/ ReturnToMenu

(***************************************************************************)
(* SpecHrv: the local HRV session, handle_basic_hrv.                       *)
(***************************************************************************)
\* a reading of the loop: what read_sample() returned and the clock
RECURSIVE BeatReadings(_, _, _)
\* the readings of a loop in which the sampler delivers the value 90 at the
\* end of every gap, from first on; with quiet, a tick without a new sample
\* comes halfway through each gap
BeatReadings(first, gaps, quiet) ==
    IF gaps = <<>> THEN <<>>
    ELSE LET at == ticks_add(first, Head(gaps))
         IN  (IF quiet
              THEN <<[s |-> [new |-> FALSE, v |-> 0],
                      now |-> ticks_add(first, Head(gaps) \div 2)]>>
              ELSE <<>>)
             \o <<[s |-> [new |-> TRUE, v |-> 90], now |-> at]>>
             \o BeatReadings(at, Tail(gaps), quiet)

RECURSIVE HrvRun(_, _, _, _, _)
\* the loop of handle_basic_hrv from reading i on
HrvRun(st, thr, start, readings, i) ==
    IF i > Len(readings) \/ ~(ticks_diff(readings[i].now, start) < WINDOW_MS)
    THEN st
    ELSE HrvRun(HrvSample(st, read_live_signal(readings[i].s, thr)[2], readings[i].now),
                thr, start, readings, i + 1)

\* the collection of handle_basic_hrv entered at t0: intervals after the loop
collect_hrv(t0, thr, gaps, quiet) ==
    LET start == ticks_add(t0, calibration_time_ms)
    IN  HrvRun([beats |-> <<>>, intervals |-> <<>>], thr, start,
               BeatReadings(start, gaps, quiet), 1).intervals

HrvGaps == {200, 700, 850}

HrvCollectInputs ==
    [cal : {<<20, 90>>}, gaps : SeqsUpTo(HrvGaps, MaxHrvBeats), quiet : BOOLEAN]

\* a variant of the floor that lets a single interval through
TooFewBelow1(ivs) == Len(ivs) < 1

\* if len(intervals) < 2
TooFew(ivs) == Len(ivs) < 2

\* the dict data handle_basic_hrv builds from the metrics at ticks now
HrvData(metrics, now) ==
    ("timestamp" :> [t |-> "str", shows |-> <<now>>])
    @@ ("mean_hr" :> metrics.mean_hr) @@ ("mean_ppi" :> metrics.mean_ppi)
    @@ ("rmssd" :> metrics.rmssd) @@ ("sdnn" :> metrics.sdnn)

\* app.py dispatches to handle_basic_hrv
HandleBasicHrv ==
    /\ hpc = "menu"
    /\ pc = "menu"
    /\ sessions < MaxSessions
    /\ sessions' = sessions + 1
    /\ hpc' = "await_start"
    /\ hsess' = FreshHrv
    /\ UNCHANGED <<pc, stack, ppi, kubios_result, client, wait_elapsed, cycle>>
    /\ UNCHANGED <<acqVars, detVars, fnVars, histVars>>

\* the two waits for the button end: the user pressed and released it
HrvPressStart ==
    /\ hpc = "await_start"
    /\ hpc' = "collecting"
    /\ hsess' = [hsess EXCEPT !.pressed = TRUE]
    /\ UNCHANGED <<acqVars, detVars, sessVars, fnVars, histVars>>

\* calibrate_threshold(), then the loop of 30 s
HrvCollect ==
    /\ hpc = "collecting"
    /\ \E in \in HrvCollectInputs : \E thr \in calibrate_threshold(in.cal) :
          hsess' = [hsess EXCEPT !.collections = @ + 1,
                                 !.intervals = collect_hrv(0, thr, in.gaps, in.quiet)]
    /\ hpc' = "validating"
    /\ UNCHANGED <<acqVars, detVars, sessVars, fnVars, histVars>>

\* if len(intervals) < 2: the error branch
HrvTooFew ==
    /\ hpc = "validating"
    /\ TooFew(hsess.intervals)
    /\ hpc' = "error_feedback"
    /\ UNCHANGED hsess
    /\ UNCHANGED <<acqVars, detVars, sessVars, fnVars, histVars>>

\* show_error_screen(), its result dropped; return
HrvErrorFeedback ==
    /\ hpc = "error_feedback"
    /\ \E p \in PressPolls :
          hsess' = [hsess EXCEPT !.feedback = Append(@, show_error_screen(p))]
    /\ hpc' = "returned"
    /\ UNCHANGED <<acqVars, detVars, sessVars, fnVars, histVars>>

\* calculate_hrv(intervals), data, append_to_hrv_history(data)
HrvCompute ==
    /\ hpc = "validating"
    /\ ~TooFew(hsess.intervals)
    /\ \E lt \in SessionTimes :
          LET data == HrvData(calculate_hrv(hsess.intervals), 0)
              r    == append_to_hrv_history(hrv_file, data, lt)
          IN  /\ hrv_file' = r.file
              /\ hsess' = [hsess EXCEPT !.computed = @ + 1,
                                        !.handed = Append(@, [data   |-> data,
                                                              stored |-> r.stored,
                                                              entry  |-> r.data]),
                                        !.data = r.data]
    /\ hpc' = "wifi"
    /\ UNCHANGED <<history_file, saved>>
    /\ UNCHANGED <<acqVars, detVars, sessVars, fnVars>>

\* connect_wifi(...) returned, its result dropped; then isconnected()
HrvWifi ==
    /\ hpc = "wifi"
    /\ \E up \in BOOLEAN : hpc' = IF up THEN "mqtt" ELSE "send_error"
    /\ hsess' = [hsess EXCEPT !.net = Append(@, "wifi")]
    /\ UNCHANGED <<acqVars, detVars, sessVars, fnVars, histVars>>

\* connect_wifi raises (the WLAN driver)
HrvWifiRaises ==
    /\ hpc = "wifi"
    /\ hpc' = "send_error"
    /\ hsess' = [hsess EXCEPT !.net = Append(@, "wifi")]
    /\ UNCHANGED <<acqVars, detVars, sessVars, fnVars, histVars>>

\* connect_mqtt(), its result dropped
HrvMqtt ==
    /\ hpc = "mqtt"
    /\ \E outs \in MqttOutcomes : client' = connect_mqtt(outs).client
    /\ hpc' = "publish"
    /\ hsess' = [hsess EXCEPT !.net = Append(@, "mqtt")]
    /\ UNCHANGED <<pc, stack, ppi, kubios_result, wait_elapsed, sessions, cycle>>
    /\ UNCHANGED <<acqVars, detVars, fnVars, histVars>>

\* publish_json("hrv/data", data): client.publish returns; break
HrvPublishOk ==
    /\ hpc = "publish"
    /\ publish_json(client) = "publish"
    /\ client \in {"connected", "subscribed"}
    /\ hpc' = "show"
    /\ hsess' = [hsess EXCEPT !.net = Append(@, "publish"),
                              !.published = Append(@, hsess.data)]
    /\ UNCHANGED <<acqVars, detVars, sessVars, fnVars, histVars>>

\* publish_json("hrv/data", data): client.publish raises
HrvPublishRaises ==
    /\ hpc = "publish"
    /\ publish_json(client) = "publish"
    /\ hpc' = "send_error"
    /\ hsess' = [hsess EXCEPT !.net = Append(@, "publish"),
                              !.published = Append(@, hsess.data)]
    /\ UNCHANGED <<acqVars, detVars, sessVars, fnVars, histVars>>

\* a variant that shows the results when the user lets the error screen run out
HrvSendErrorShows ==
    /\ hpc = "send_error"
    /\ \E p \in PressPolls :
          LET user_choice == show_error_screen(p)
          IN  /\ user_choice = "retry" => hsess.retries < MaxSendRetries
              /\ hpc' = IF user_choice = "exit" THEN "show" ELSE "wifi"
              /\ hsess' = [hsess EXCEPT
                             !.feedback = Append(@, user_choice),
                             !.retries = IF user_choice = "exit" THEN @ ELSE @ + 1]
    /\ UNCHANGED <<acqVars, detVars, sessVars, fnVars, histVars>>

\* a variant whose retry starts a new collection
HrvSendErrorRecollects ==
    /\ hpc = "send_error"
    /\ \E p \in PressPolls :
          LET user_choice == show_error_screen(p)
          IN  /\ user_choice = "retry" => hsess.retries < MaxSendRetries
              /\ hpc' = IF user_choice = "exit" THEN "returned" ELSE "collecting"
              /\ hsess' = [hsess EXCEPT
                             !.feedback = Append(@, user_choice),
                             !.retries = IF user_choice = "exit" THEN @ ELSE @ + 1]
    /\ UNCHANGED <<acqVars, detVars, sessVars, fnVars, histVars>>

\* a variant whose retry goes back to the validation, computes and saves again
HrvSendErrorRecomputes ==
    /\ hpc = "send_error"
    /\ \E p \in PressPolls :
          LET user_choice == show_error_screen(p)
          IN  /\ user_choice = "retry" => hsess.retries < MaxSendRetries
              /\ hpc' = IF user_choice = "exit" THEN "returned" ELSE "validating"
              /\ hsess' = [hsess EXCEPT
                             !.feedback = Append(@, user_choice),
                             !.retries = IF user_choice = "exit" THEN @ ELSE @ + 1]
    /\ UNCHANGED <<acqVars, detVars, sessVars, fnVars, histVars>>

\* if show_error_screen() == "exit": return; otherwise the loop goes round
HrvSendError ==
    /\ hpc = "send_error"
    /\ \E p \in PressPolls :
          LET user_choice == show_error_screen(p)
          IN  /\ user_choice = "retry" => hsess.retries < MaxSendRetries
              /\ hpc' = IF user_choice = "exit" THEN "returned" ELSE "wifi"
              /\ hsess' = [hsess EXCEPT
                             !.feedback = Append(@, user_choice),
                             !.retries = IF user_choice = "exit" THEN @ ELSE @ + 1]
    /\ UNCHANGED <<acqVars, detVars, sessVars, fnVars, histVars>>

\* show_hrv_screen(mean_hr, mean_ppi, rmssd, sdnn); return
HrvShow ==
    /\ hpc = "show"
    /\ hpc' = "returned"
    /\ hsess' = [hsess EXCEPT !.shown = TRUE]
    /\ UNCHANGED <<acqVars, detVars, sessVars, fnVars, histVars>>

\* handle_basic_hrv returned: app.py shows the menu
HrvReturn ==
    /\ hpc = "returned"
    /\ hpc' = "menu"
    /\ hsess' = FreshHrv
    /\ UNCHANGED <<acqVars, detVars, sessVars, fnVars, histVars>>

HrvNext ==
    \/ HandleBasicHrv \/ HrvPressStart \/ HrvCollect
    \/ HrvTooFew \/ HrvErrorFeedback \/ HrvCompute
    \/ HrvWifi \/ HrvWifiRaises \/ HrvMqtt
    \/ HrvPublishOk \/ HrvPublishRaises
    \/ HrvSendError \/ HrvShow \/ HrvReturn

(***************************************************************************)
(* SpecFn: one call of a function of the core on given arguments.          *)
(***************************************************************************)
\* the sequences over S of length lo..hi
SeqsFromTo(S, lo, hi) == {q \in SeqsUpTo(S, hi) : Len(q) >= lo}

\* a variant that divides by the sum of the intervals, not by their average
calculate_bpm_of_sum(ivs) ==
    IF ivs = <<>> THEN 0
    ELSE round(MS_PER_MINUTE, Sum(ivs))

\* calculate_bpm(intervals): 60000 / (sum / len) is 60000 * len / sum; the
\* intervals of every caller are accepted gaps, so sum > 0
calculate_bpm(ivs) ==
    IF ivs = <<>> THEN 0
    ELSE round(MS_PER_MINUTE * Len(ivs), Sum(ivs))

\* wait_for_kubios_result, after check_msg: `if kubios_result is not None`
SlotNonEmpty(slot) == slot # None

\* the arguments of the calls
Topics == {"kubios/response", "kubios/other"}
Slots == {None, on_message(None, MsgFull), on_message(None, MsgNoIdx)}
CalValues == {0, 20, 90, 100, ADC_MAX}
\* (the first and the last are the shortest and the longest accepted gap)
BpmIntervals == {251, 500, 700, 960, 1000, 1600, 1999}
Macs == {MAC_ADDRESS, <<"a", "b", ":", "0", "1">>, <<":", "7", ":">>, <<"1", "2">>, <<>>}
PayloadIntervals == {300, 800, 1999}
HrvIntervals == {700, 800, 900}

OnMessageCalls == [fn : {"on_message"}, topic : Topics, msg : Inbound]
CalibrateCalls ==
    [fn : {"calibrate_threshold"}, samples : SeqsFromTo(CalValues, 1, MaxCalSamples)]
BpmCalls == [fn : {"calculate_bpm"}, intervals : SeqsUpTo(BpmIntervals, MaxBpmIntervals)]
FormatCalls ==
    [fn : {"format_kubios_payload"}, mac : Macs,
     ppi_list : SeqsUpTo(PayloadIntervals, MaxPayload)]

HrvCalls == [fn : {"calculate_hrv"}, intervals : SeqsUpTo(HrvIntervals, MaxHrvIntervals)]

MqttCalls == [fn : {"connect_mqtt"}, outs : MqttOutcomes]

FnInit ==
    /\ ret = [done |-> FALSE]
    /\ \/ call \in OnMessageCalls /\ kubios_result \in Slots
       \/ call \in CalibrateCalls /\ kubios_result = None
       \/ call \in BpmCalls /\ kubios_result = None
       \/ call \in FormatCalls /\ kubios_result = None
       \/ call \in HrvCalls /\ kubios_result = None
       \/ call \in MqttCalls /\ kubios_result = None

\* the broker's message reaches the callback
OnMessage ==
    /\ call.fn = "on_message"
    /\ ~ret.done
    /\ kubios_result' = on_message(kubios_result, call.msg)
    /\ ret' = [done     |-> TRUE,
               before   |-> kubios_result,
               raised   |-> on_message_raises(call.msg),
               resolves |-> SlotNonEmpty(kubios_result')]
    /\ UNCHANGED call
    /\ UNCHANGED notFn

\* calibrate_threshold() over the samples its window reads
Calibrate ==
    /\ call.fn = "calibrate_threshold"
    /\ ~ret.done
    /\ \E thr \in calibrate_threshold(call.samples) :
          ret' = [done |-> TRUE, value |-> thr]
    /\ UNCHANGED <<call, kubios_result>>
    /\ UNCHANGED notFn

CalculateBpm ==
    /\ call.fn = "calculate_bpm"
    /\ ~ret.done
    /\ ret' = [done |-> TRUE, value |-> calculate_bpm(call.intervals)]
    /\ UNCHANGED <<call, kubios_result>>
    /\ UNCHANGED notFn

FormatPayload ==
    /\ call.fn = "format_kubios_payload"
    /\ ~ret.done
    /\ ret' = [done |-> TRUE, value |-> format_kubios_payload(call.mac, call.ppi_list)]
    /\ UNCHANGED <<call, kubios_result>>
    /\ UNCHANGED notFn

CalculateHrv ==
    /\ call.fn = "calculate_hrv"
    /\ ~ret.done
    /\ ret' = [done |-> TRUE, value |-> calculate_hrv(call.intervals)]
    /\ UNCHANGED <<call, kubios_result>>
    /\ UNCHANGED notFn

\* connect_mqtt() when attempt i does call.outs[i]
ConnectMqtt ==
    /\ call.fn = "connect_mqtt"
    /\ ~ret.done
    /\ LET r == connect_mqtt(call.outs)
       IN  ret' = [done |-> TRUE, value |-> r.ret, attempts |-> r.attempts,
                   client |-> r.client, raised |-> r.raised]
    /\ UNCHANGED <<call, kubios_result>>
    /\ UNCHANGED notFn

FnNext ==
    \/ OnMessage \/ Calibrate \/ CalculateBpm \/ FormatPayload \/ CalculateHrv
    \/ ConnectMqtt

(***************************************************************************)
(* SpecHist: calls of save_to_history, one after the other.                *)
(***************************************************************************)
\* the dict handle_kubios_response builds from a result
DisplayData(result) == handle_kubios_response(result, <<>>, <<0, 0, 0, 0, 0>>).handed

\* the dicts given to save_to_history: those of three results, one of them
\* with an index that is None
SaveData ==
    {DisplayData(on_message(None, m)) : m \in {MsgFull, MsgFloat, MsgNullIdx}}

\* the dict of the i-th of the saves made before the model starts to follow
EarlierData(i) ==
    ("mean_hr" :> Num(60 + i)) @@ ("mean_ppi" :> Real(MS_PER_MINUTE, 60 + i))
    @@ ("rmssd" :> Num(30)) @@ ("sdnn" :> Num(35)) @@ ("sns" :> Num(0)) @@ ("pns" :> Num(0))

EarlierTime == <<2025, 1, 30, 8, 15>>

RECURSIVE Earlier(_)
\* the list in history.json after k saves
Earlier(k) ==
    IF k = 0 THEN <<>>
    ELSE save_to_history(Earlier(k - 1), EarlierData(k), EarlierTime).history

\* history.json holds what k earlier saves left, k up to the cap
HistInit ==
    /\ call = [fn |-> "save_to_history", calls |-> 0]
    /\ ret = [done |-> FALSE]
    /\ \E k \in 0..HISTORY_CAP :
          /\ history_file = Earlier(k)
          /\ saved = Earlier(k)
    /\ hrv_file = NoFile

\* save_to_history(data)
SaveToHistory ==
    /\ call.fn = "save_to_history"
    /\ call.calls < MaxSaves
    /\ \E data \in SaveData, lt \in LocalTimes :
          LET r == save_to_history(history_file, data, lt)
          IN  /\ history_file' = r.history
              /\ saved' = IF r.raised THEN saved ELSE Append(saved, r.entry)
              /\ ret' = [done |-> TRUE, raised |-> r.raised]
    /\ call' = [call EXCEPT !.calls = @ + 1]
    /\ UNCHANGED <<acqVars, detVars, sessVars, hrvVars, hrv_file>>

HistNext == SaveToHistory

(***************************************************************************)
(* SpecSlot: wait_for_kubios_result statement by statement, with the       *)
(* callback on_message running between any two of its statements.          *)
(***************************************************************************)
\* wait_for_kubios_result() is called; the slot holds its module-level None
SlotInit ==
    /\ call = [fn |-> "wait_for_kubios_result"]
    /\ ret = [done     |-> FALSE,
              at       |-> "while",  \* the statement the reader is at
              elapsed  |-> 0,        \* time.time() - start, in seconds
              source   |-> MsgBad,   \* history: the message of the last callback
                                     \* that assigned a result to the slot
              seen     |-> None,     \* history: the value the `if` read last
              returned |-> None]

\* on_message runs on a message of the broker
SlotCallback ==
    /\ call.fn = "wait_for_kubios_result"
    /\ ~ret.done
    /\ \E m \in Inbound :
          /\ kubios_result' = on_message(kubios_result, m)
          /\ ret' = [ret EXCEPT !.source = IF on_message(None, m) # None THEN m ELSE @]
    /\ UNCHANGED call
    /\ UNCHANGED notFn

\* `while time.time() - start < timeout`: into the loop, or `return None`
SlotWhile ==
    /\ call.fn = "wait_for_kubios_result"
    /\ ~ret.done /\ ret.at = "while"
    /\ ret' = IF ret.elapsed < WAIT_TIMEOUT
              THEN [ret EXCEPT !.at = "if"]
              ELSE [ret EXCEPT !.done = TRUE, !.at = "returned", !.returned = None]
    /\ UNCHANGED <<call, kubios_result>>
    /\ UNCHANGED notFn

\* `if kubios_result is not None`
SlotTest ==
    /\ call.fn = "wait_for_kubios_result"
    /\ ~ret.done /\ ret.at = "if"
    /\ ret' = [ret EXCEPT !.seen = kubios_result,
                          !.at = IF SlotNonEmpty(kubios_result) THEN "return" ELSE "sleep"]
    /\ UNCHANGED <<call, kubios_result>>
    /\ UNCHANGED notFn

\* `return kubios_result`
SlotReturn ==
    /\ call.fn = "wait_for_kubios_result"
    /\ ~ret.done /\ ret.at = "return"
    /\ ret' = [ret EXCEPT !.done = TRUE, !.at = "returned", !.returned = kubios_result]
    /\ UNCHANGED <<call, kubios_result>>
    /\ UNCHANGED notFn

\* time.sleep(0.1)
SlotSleep ==
    /\ call.fn = "wait_for_kubios_result"
    /\ ~ret.done /\ ret.at = "sleep"
    /\ \E d \in {0, 1} : ret' = [ret EXCEPT !.at = "while", !.elapsed = @ + d]
    /\ UNCHANGED <<call, kubios_result>>
    /\ UNCHANGED notFn

SlotNext == SlotCallback \/ SlotWhile \/ SlotTest \/ SlotReturn \/ SlotSleep

(***************************************************************************)
(* SpecView: handle_history, one action per round of a polling loop.       *)
(***************************************************************************)
\* what encoder.get_turn() gives in one round
Turns == {0 - 1, 0, 1}

\* the options of show_back_menu
BackOptions == <<"BACK TO HISTORY", "BACK TO MAIN">>

\* handle_history(encoder) is called; recent_history has call.entries entries
ViewInit ==
    /\ call \in [fn : {"handle_history"}, entries : 0..RECENT]
    /\ ret = [done     |-> FALSE,
              at       |-> "load",  \* where the handler is
              index    |-> 0,       \* index of handle_history
              selected |-> 0,       \* selected of the running show_back_menu
              details  |-> 0,       \* 1 from the time a detail screen is shown
                                    \* until the list is shown again
              choices  |-> <<>>]    \* history: what the calls of show_back_menu
                                    \* since the last detail screen returned

\* `if not recent_history`: the empty list, a pause, return
ViewEmpty ==
    /\ call.fn = "handle_history"
    /\ ret.at = "load" /\ call.entries = 0
    /\ ret' = [ret EXCEPT !.done = TRUE, !.at = "returned"]
    /\ UNCHANGED call
    /\ UNCHANGED <<acqVars, detVars, sessVars, histVars, hrvVars>>

\* index = 0 and into the loop
ViewEnter ==
    /\ call.fn = "handle_history"
    /\ ret.at = "load" /\ call.entries > 0
    /\ ret' = [ret EXCEPT !.at = "list", !.index = 0]
    /\ UNCHANGED call
    /\ UNCHANGED <<acqVars, detVars, sessVars, histVars, hrvVars>>

\* one round of the loop of handle_history up to `if is_encoder_pressed()`:
\* the list, the turn, and on a press the detail screen
ViewList ==
    /\ call.fn = "handle_history"
    /\ ret.at = "list"
    /\ \E turn \in Turns, pressed \in BOOLEAN :
          ret' = [ret EXCEPT !.index = (@ + turn) % call.entries,
                             !.at = IF pressed THEN "detail" ELSE "list",
                             !.details = IF pressed THEN 1 ELSE 0,
                             !.choices = <<>>]
    /\ UNCHANGED call
    /\ UNCHANGED <<acqVars, detVars, sessVars, histVars, hrvVars>>

\* show_measurement_detail: the wait for a press ends, and it calls
\* show_back_menu
ViewDetail ==
    /\ call.fn = "handle_history"
    /\ ret.at = "detail"
    /\ ret' = [ret EXCEPT !.at = "detail_menu", !.selected = 0]
    /\ UNCHANGED call
    /\ UNCHANGED <<acqVars, detVars, sessVars, histVars, hrvVars>>

\* one round of the loop of show_back_menu: [selected, returned, choice]
show_back_menu(selected, turn, pressed) ==
    LET s == (selected + turn) % Len(BackOptions)
    IN  [selected |-> s, returned |-> pressed, choice |-> BackOptions[s + 1]]

\* the show_back_menu that show_measurement_detail calls; handle_history drops
\* what show_measurement_detail returns and calls show_back_menu itself
ViewDetailMenu ==
    /\ call.fn = "handle_history"
    /\ ret.at = "detail_menu"
    /\ \E turn \in Turns, pressed \in BOOLEAN :
          LET r == show_back_menu(ret.selected, turn, pressed)
          IN  ret' = IF ~r.returned THEN [ret EXCEPT !.selected = r.selected]
                     ELSE [ret EXCEPT !.selected = 0,
                                      !.choices = Append(@, r.choice),
                                      !.at = "back_menu"]
    /\ UNCHANGED call
    /\ UNCHANGED <<acqVars, detVars, sessVars, histVars, hrvVars>>

\* choice = show_back_menu(encoder) of handle_history: continue or return
ViewBackMenu ==
    /\ call.fn = "handle_history"
    /\ ret.at = "back_menu"
    /\ \E turn \in Turns, pressed \in BOOLEAN :
          LET r == show_back_menu(ret.selected, turn, pressed)
          IN  ret' = IF ~r.returned THEN [ret EXCEPT !.selected = r.selected]
                     ELSE [ret EXCEPT
                             !.selected = r.selected,
                             !.choices = Append(@, r.choice),
                             !.done = r.choice = "BACK TO MAIN",
                             !.at = IF r.choice = "BACK TO MAIN" THEN "returned"
                                    ELSE "list"]
    /\ UNCHANGED call
    /\ UNCHANGED <<acqVars, detVars, sessVars, histVars, hrvVars>>

ViewNext ==
    \/ ViewEmpty \/ ViewEnter \/ ViewList \/ ViewDetail \/ ViewDetailMenu
    \/ ViewBackMenu

(***************************************************************************)
(* SpecScreen: show_error_screen, one action per poll of the button.       *)
(***************************************************************************)
\* the time since the last registered press, in ms; DEBOUNCE_MS + POLL_MS
\* stands for every longer time
Ages == {a \in 0..(DEBOUNCE_MS + POLL_MS) : a % POLL_MS = 0}

\* a variant without the debounce
is_encoder_pressed_level(pin, age) == pin = 0

\* is_encoder_pressed() when encoder_button.value() is pin and age ms have
\* passed since last_press_time
is_encoder_pressed(pin, age) == pin = 0 /\ age > DEBOUNCE_MS

\* show_error_screen() is entered age ms after the last registered press
ScreenInit ==
    /\ \E age \in Ages : call = [fn |-> "show_error_screen", age |-> age]
    /\ ret = [done       |-> FALSE,
              seconds    |-> ERROR_SECONDS - 1,  \* the countdown value shown
              shown      |-> 1,        \* countdown steps begun
              i          |-> 0,        \* polls made in this countdown step
              polls      |-> 0,        \* polls made
              pin        |-> 1,        \* the pin at the last poll
              age        |-> call.age, \* ms since the last registered press
              pressed_at |-> {},       \* history: the polls with the pin low
                                       \* and the debounce time over
              result     |-> "none"]

\* one round of `for _ in range(10)`: the poll, then time.sleep(0.1); after
\* the tenth round the next countdown value is shown, if there is one
ScreenPoll ==
    /\ call.fn = "show_error_screen"
    /\ ~ret.done
    /\ ret.seconds >= 0
    /\ \E pin \in {0, 1} :
          LET n    == ret.polls + 1
              seen == IF pin = 0 /\ ret.age > DEBOUNCE_MS
                      THEN ret.pressed_at \cup {n} ELSE ret.pressed_at
          IN  IF is_encoder_pressed(pin, ret.age)
              THEN ret' = [ret EXCEPT !.done = TRUE, !.result = "retry", !.polls = n,
                                      !.pin = pin, !.pressed_at = seen]
              ELSE ret' = [ret EXCEPT
                             !.polls = n,
                             !.pin = pin,
                             !.pressed_at = seen,
                             !.age = Min(@ + POLL_MS, DEBOUNCE_MS + POLL_MS),
                             !.i = IF @ + 1 = ERROR_POLLS THEN 0 ELSE @ + 1,
                             !.seconds = IF ret.i + 1 = ERROR_POLLS THEN @ - 1 ELSE @,
                             !.shown = IF ret.i + 1 = ERROR_POLLS /\ ret.seconds > 0
                                       THEN @ + 1 ELSE @]
    /\ UNCHANGED call
    /\ UNCHANGED <<acqVars, detVars, sessVars, histVars, hrvVars>>

\* the countdown is over: return "exit"
ScreenExit ==
    /\ call.fn = "show_error_screen"
    /\ ~ret.done
    /\ ret.seconds < 0
    /\ ret' = [ret EXCEPT !.done = TRUE, !.result = "exit"]
    /\ UNCHANGED call
    /\ UNCHANGED <<acqVars, detVars, sessVars, histVars, hrvVars>>

ScreenNext == ScreenPoll \/ ScreenExit

(***************************************************************************)
(* The specifications.                                                     *)
(***************************************************************************)
Init == AcqIdle /\ DetVarsIdle /\ SessIdle /\ FnIdle /\ HistIdle /\ HrvIdle
Next == SessNext
Spec == Init /\ [][Next]_vars

\* a round of the wait during which time.time() moves on
TimePasses == WaitPoll /\ wait_elapsed' > wait_elapsed

\* the session under the scheduling of a sequential program: a function that
\* returned resumes its caller; the loop of wait_for_kubios_result goes round,
\* sleeps 0.1 s in every round, so that time.time() moves on, and ends when
\* its condition fails
SpecLive ==
    /\ Spec
    /\ WF_vars(Unwind) /\ WF_vars(ReturnToMenu)
    /\ WF_vars(WaitPoll) /\ WF_vars(TimePasses) /\ WF_vars(WaitTimeout)

\* the session when every step of kubios_analysis comes to its end: the user
\* presses the button where the program waits for it (wait_for_encoder_press,
\* the results screen of handle_kubios_response), the collection runs for its
\* 30 s, connect_wifi and connect_mqtt make their bounded attempts,
\* client.publish returns or raises, show_error_screen counts down
StepEnds ==
    \/ PressStart \/ Collect
    \/ ValidateFail \/ ValidateOk \/ ErrorValidation
    \/ WifiOk \/ WifiFail \/ WifiRaises
    \/ MqttConnect
    \/ PublishOk \/ PublishRaises
    \/ Success
    \/ ErrorTimeout \/ ErrorExcept

SpecFair == SpecLive /\ WF_vars(StepEnds)

InitAcq == AcqInit /\ DetVarsIdle /\ SessIdle /\ FnIdle /\ HistIdle /\ HrvIdle
NextAcq == AcqNext
SpecAcq == InitAcq /\ [][NextAcq]_vars

InitDet == AcqIdle /\ DetInit /\ SessIdle /\ FnIdle /\ HistIdle /\ HrvIdle
NextDet == DetNext
SpecDet == InitDet /\ [][NextDet]_vars

\* hrv_analysis.json is missing or holds an empty list
InitHrv ==
    /\ AcqIdle /\ DetVarsIdle /\ SessIdle /\ FnIdle /\ HrvIdle
    /\ history_file = <<>>
    /\ hrv_file \in {NoFile, FileOf(<<>>)}
    /\ saved = <<>>
NextHrv == HrvNext
SpecHrv == InitHrv /\ [][NextHrv]_vars

NextApp == SessNext \/ HrvNext
SpecApp == InitHrv /\ [][NextApp]_vars

InitHist == AcqIdle /\ DetVarsIdle /\ SessIdle /\ HrvIdle /\ HistInit
NextHist == HistNext
SpecHist == InitHist /\ [][NextHist]_vars

\* the acquisition loops on a regular pulse, over their whole window
InitPulse ==
    /\ AcqInit /\ DetVarsIdle /\ SessIdle /\ HistIdle /\ HrvIdle
    /\ call \in [fn : {"pulse"}, period : PulsePeriods, step : PulseSteps]
    /\ ret = [done |-> FALSE]
NextPulse == AcqNext
SpecPulse == InitPulse /\ [][NextPulse]_vars

InitView == AcqIdle /\ DetVarsIdle /\ SessIdle /\ HistIdle /\ HrvIdle /\ ViewInit
NextView == ViewNext
SpecView == InitView /\ [][NextView]_vars

InitSlot == AcqIdle /\ DetVarsIdle /\ SessIdle /\ HistIdle /\ HrvIdle /\ SlotInit
NextSlot == SlotNext
SpecSlot == InitSlot /\ [][NextSlot]_vars

InitScreen == AcqIdle /\ DetVarsIdle /\ SessIdle /\ HistIdle /\ HrvIdle /\ ScreenInit
NextScreen == ScreenNext
SpecScreen == InitScreen /\ [][NextScreen]_vars

InitFn == AcqIdle /\ DetVarsIdle /\ SessRest /\ FnInit /\ HistIdle /\ HrvIdle
NextFn == FnNext
SpecFn == InitFn /\ [][NextFn]_vars

(***************************************************************************)
(* The claims.                                                             *)
(***************************************************************************)

\* C1: a result wait_for_kubios_result returns in a cycle was put into the
\* slot by a message received during that cycle's wait (the slot is cleared
\* before each wait, so no result of an earlier cycle or session is returned).
C1_ReturnedResultIsFresh ==
    cycle.returned # None => cycle.returned \in cycle.deposited

\* C2: a cycle that collected fewer than 5 intervals issues no network
\* operation (Wi-Fi connect, MQTT connect, publish, wait) and goes from the
\* validation to the error screen, from where it can only return.
C2_NoNetworkOnValidationFailure ==
    (cycle.collected /\ Len(cycle.collected_ivs) < 5) =>
        /\ cycle.net = {}
        /\ pc \in {"validating", "error_validation", "unwinding"}
        /\ (pc = "unwinding" => cycle.choice # "none")

C2_Witness ==
    pc = "error_validation" /\ Len(ppi) = 4 /\ cycle.collected /\ cycle.net = {}

\* C3: in every acquisition loop each accepted interval is strictly between
\* 250 and 2000 ms.
C3_AcceptedIntervalsPlausible ==
    \A i \in 1..Len(intervals) : 250 < intervals[i] /\ intervals[i] < 2000

\* an acquisition that accepted a gap and rejected a gap of exactly 250 or 2000
C3_Witness ==
    /\ intervals # <<>>
    /\ \E i \in 2..Len(beat_times) :
          ticks_diff(beat_times[i], beat_times[i - 1]) \in {250, 2000}

\* C4: read_live_signal reports a beat only when the previous sample was below
\* the threshold and the current one is at or above it, so consecutive samples
\* at or above the threshold give one beat event in handle_measure_hr and
\* handle_basic_hrv.
C4_BeatOnlyOnRisingEdge ==
    [][(path \in {"hr", "hrv"} /\ nsamples' = nsamples + 1 /\ beat')
         => (last_sample < threshold /\ value' >= threshold)]_vars

\* C5: in the cloud Collecting loop and in measure_intervals a beat timestamp
\* is appended at a sample exactly when the previous sample (0 before the
\* first) was below the threshold and the current one is at or above it, and
\* last_value is the current sample after every iteration.
C5_EdgeTriggered ==
    [][(path \in {"kubios", "measure"} /\ nsamples' = nsamples + 1) =>
         /\ (last_sample < threshold /\ value' >= threshold)
               => (/\ beat_times' # beat_times
                   /\ beat_times'[Len(beat_times')] = ticks
                   /\ Len(beat_times') = Min(Len(beat_times) + 1, 20))
         /\ ~(last_sample < threshold /\ value' >= threshold)
               => beat_times' = beat_times
         /\ last_value' = value']_vars

\* two consecutive samples at or above the threshold gave one beat, at the first
C5_Witness ==
    /\ path = "kubios" /\ nsamples = 2
    /\ value >= threshold /\ last_value = value
    /\ beat_times = <<ticks_add(start_time, calibration_time_ms)>>

\* the input of C6: 90, 20, 90, 20, 90 against threshold 50, one sample every 600 ms
C6_Fed ==
    /\ det_out.done
    /\ det_in.vals = <<90, 20, 90, 20, 90>>
    /\ det_out.threshold = 50
    /\ det_in.spacing = 600

\* C6 as stated: that input yields exactly two accepted intervals of 600 ms.
C6_TwoIntervalsOf600 ==
    C6_Fed => det_out.intervals = <<600, 600>>

\* C6 as amended: that input yields exactly two accepted intervals of 1200 ms
\* (the three rising edges are two samples apart).
C6_TwoIntervalsOf1200 ==
    C6_Fed => det_out.intervals = <<1200, 1200>>

C6_Witness ==
    C6_Fed /\ Len(det_out.intervals) = 2

\* C7: an exception of the connectivity, publish or wait step and a timeout of
\* the wait take kubios_analysis to the retry/exit decision; none leaves it.
C7_FailuresReachDecision ==
    /\ pc # "propagated"
    /\ cycle.exc # "none" => (pc = "error_except" \/ cycle.choice = "exit")
    /\ cycle.timeout => (pc = "error_timeout" \/ cycle.choice = "exit")

C7_Witness ==
    pc = "error_except" /\ cycle.exc = "wait"

\* C8: publish is issued in a cycle only after connect_wifi returned True and
\* connect_mqtt opened the session (connected and subscribed) in that cycle.
C8_PublishOnlyAfterSessionOpen ==
    cycle.published # <<>> => (cycle.wifi_ok /\ cycle.mqtt_ok)

\* C9: a retry starts a new invocation at AwaitingStart with nothing carried
\* over, and whatever a cycle publishes is the list that cycle collected after
\* its own start press.
C9_RetryRestartsFromCollection ==
    /\ [](cycle.published # <<>> =>
            /\ cycle.pressed /\ cycle.collected
            /\ \A i \in 1..Len(cycle.published) :
                  cycle.published[i] = cycle.collected_ivs)
    /\ [][Len(stack') > Len(stack) =>
            (pc' = "await_start" /\ ppi' = <<>> /\ cycle' = FreshCycle)]_vars

\* a cycle started by a retry has published
C9_Witness ==
    stack # <<>> /\ cycle.published # <<>> /\ pc = "waiting"

\* C10: after a failed validation the error screen is a retry/exit decision:
\* kubios_analysis returns only if the user chose exit there.
C10_ValidationFailureOffersRetry ==
    (pc = "unwinding" /\ cycle.collected /\ Len(cycle.collected_ivs) < 5)
        => cycle.choice = "exit"

\* C11: once the user chose exit at the retry/exit decision, the session does
\* nothing more (no collection, connect, publish or wait): every enclosing
\* invocation of kubios_analysis returns in turn, and control reaches the caller.
C11_ExitEndsSession ==
    /\ [][(pc = "unwinding" /\ cycle.choice = "exit") =>
            /\ pc' \in {"unwinding", "menu"}
            /\ pc' = "unwinding" => (Len(stack') < Len(stack) /\ cycle' = cycle)
            /\ pc' = "menu" => (stack = <<>> /\ sessions' = sessions)]_vars
    /\ ((pc = "unwinding" /\ cycle.choice = "exit") ~> (pc = "menu"))

\* exit was chosen in an invocation a retry had started
C11_Witness ==
    pc = "unwinding" /\ cycle.choice = "exit" /\ stack # <<>> /\ cycle.exc # "none"

\* C12: for every inbound message that fails parsing (bytes that do not decode,
\* text that is no JSON, a JSON value of the wrong structure) on_message leaves
\* the slot kubios_result as it was.
C12_ParseFailureKeepsSlot ==
    (ret.done /\ call.fn = "on_message" /\ TryException(call.msg) # "none")
        => kubios_result = ret.before

\* C12 as amended: for every such message on_message sets the slot to None,
\* which clears a result the slot held.
C12_ParseFailureClearsSlot ==
    (ret.done /\ call.fn = "on_message" /\ TryException(call.msg) # "none")
        => kubios_result = None

\* text that is no JSON arrived while the slot held a result
C12_Witness ==
    /\ ret.done /\ call.fn = "on_message"
    /\ call.msg = MsgText /\ TryException(call.msg) = "ValueError"
    /\ ret.before # None

\* C13: on_message never raises to the context that called it, whatever the
\* topic and the message bytes.
C13_OnMessageNeverRaises ==
    (ret.done /\ call.fn = "on_message") => ret.raised = "none"

\* the callback ran on bytes that do not decode, on a topic it did not subscribe to
C13_Witness ==
    /\ ret.done /\ call.fn = "on_message"
    /\ call.msg = MsgBad /\ call.topic = "kubios/other"
    /\ TryException(call.msg) = "UnicodeError"

\* the responses of C14: no data at the top level, a data that is no object, or
\* an analysis object that lacks one of the four required keys
C14_Incomplete(msg) ==
    /\ msg.enc = "json"
    /\ msg.v.t = "obj"
    /\ \/ ~Has(msg.v, "data")
       \/ msg.v.f["data"].t # "obj"
       \/ ~Has(msg.v.f["data"], "analysis")
       \/ /\ msg.v.f["data"].f["analysis"].t = "obj"
          /\ \E k \in {"mean_hr_bpm", "mean_rr_ms", "rmssd_ms", "sdnn_ms"} :
                ~Has(msg.v.f["data"].f["analysis"], k)

\* C14: such a response is discarded: the slot keeps its value, and a wait whose
\* slot was empty does not resolve at the poll that took the message.
C14_IncompleteResponseDiscarded ==
    (ret.done /\ call.fn = "on_message" /\ C14_Incomplete(call.msg))
        => /\ kubios_result = ret.before
           /\ ret.before = None => ~ret.resolves

\* a response without rmssd_ms arrived while the slot was empty
C14_Witness ==
    /\ ret.done /\ call.fn = "on_message"
    /\ call.msg = MsgMissing /\ C14_Incomplete(call.msg)
    /\ ret.before = None

\* what C15 says of the value wait_for_kubios_result returns: a poll that finds
\* the slot non-empty returns its content, a poll goes on only over an empty
\* slot, and None is returned only once the timeout is reached, the slot empty
C15_Returns ==
    [][pc = "waiting" =>
        /\ pc' = "success" =>
              (SlotNonEmpty(kubios_result') /\ cycle'.returned = kubios_result')
        /\ pc' = "waiting" => ~SlotNonEmpty(kubios_result')
        /\ pc' = "error_timeout" =>
              /\ ~(wait_elapsed < WAIT_TIMEOUT)
              /\ ~SlotNonEmpty(kubios_result)
              /\ cycle'.returned = None /\ cycle'.timeout]_vars

\* C15 as stated: wait_for_kubios_result always returns, and what it returns is
\* as above.
C15_WaitAlwaysReturns ==
    /\ C15_Returns
    /\ [][pc = "waiting" => pc' \in {"waiting", "success", "error_timeout"}]_vars
    /\ (pc = "waiting") ~> (pc \in {"success", "error_timeout"})

\* C15 as amended: wait_for_kubios_result always ends: it returns, as above, or
\* client.check_msg() raises and the exception leaves it.
C15_WaitAlwaysEnds ==
    /\ C15_Returns
    /\ (pc = "waiting") ~> (pc \in {"success", "error_timeout", "error_except"})

\* the wait returned None after the full timeout
C15_Witness ==
    pc = "error_timeout" /\ cycle.timeout /\ wait_elapsed = WAIT_TIMEOUT

\* C16 as stated: the message published to the request topic is the raw list of
\* accepted intervals itself, not a request object wrapped around it.
C16_PublishedIsRawList ==
    \A i \in 1..Len(cycle.wire) :
        /\ cycle.wire[i].topic = "kubios/request"
        /\ cycle.wire[i].payload = JArr(cycle.collected_ivs)

\* C16 as amended: kubios_analysis hands publish_json the raw list, and the
\* message on the request topic is the request object (type RRI, mac, data,
\* analysis) format_kubios_payload wraps around that list.
C16_PublishedIsWrapped ==
    \A i \in 1..Len(cycle.wire) :
        /\ cycle.published[i] = cycle.collected_ivs
        /\ cycle.wire[i].topic = "kubios/request"
        /\ cycle.wire[i].payload.t = "obj"
        /\ DOMAIN cycle.wire[i].payload.f = {"type", "mac", "data", "analysis"}
        /\ cycle.wire[i].payload.f["type"] = Str("RRI")
        /\ cycle.wire[i].payload.f["data"] = JArr(cycle.collected_ivs)

\* a cycle published a list of at least five intervals
C16_Witness ==
    /\ Len(cycle.wire) = 1
    /\ Len(cycle.collected_ivs) >= 5
    /\ pc = "waiting"

RECURSIVE C17_Strip(_)
\* s without its colons, the other characters in their order
C17_Strip(s) ==
    IF s = <<>> THEN <<>>
    ELSE IF Head(s) = ":" THEN C17_Strip(Tail(s))
    ELSE <<Head(s)>> \o C17_Strip(Tail(s))

\* C17: the request format_kubios_payload builds has the MAC address without
\* its colons, the other characters kept in order (AA:BB:CC:DD:EE:FF gives
\* AABBCCDDEEFF), the given intervals unchanged as data, type RRI and analysis
\* type readiness.
C17_RequestFormat ==
    (ret.done /\ call.fn = "format_kubios_payload") =>
        /\ \A i \in 1..Len(ret.value.mac) : ret.value.mac[i] # ":"
        /\ ret.value.mac = C17_Strip(call.mac)
        /\ call.mac = MAC_ADDRESS =>
              ret.value.mac = <<"A", "A", "B", "B", "C", "C", "D", "D", "E", "E", "F", "F">>
        /\ ret.value.data = call.ppi_list
        /\ ret.value.type = "RRI"
        /\ ret.value.analysis.type = "readiness"

\* the request for the address of the example and two intervals
C17_Witness ==
    /\ ret.done /\ call.fn = "format_kubios_payload"
    /\ call.mac = MAC_ADDRESS
    /\ call.ppi_list = <<300, 800>>

RECURSIVE C18_Least(_)
C18_Least(q) == IF Len(q) = 1 THEN q[1] ELSE Min(q[1], C18_Least(Tail(q)))
RECURSIVE C18_Greatest(_)
C18_Greatest(q) == IF Len(q) = 1 THEN q[1] ELSE Max(q[1], C18_Greatest(Tail(q)))

\* C18: the threshold t calibrate_threshold returns lies between the least and
\* the greatest sample of the window, and is min + 0.7 x (max - min) cut to an
\* integer: t - min is at most 0.7 x (max - min) and less than one below it,
\* or exactly one below it where that product is a whole number (the float
\* product can fall short of it).
C18_ThresholdInRange ==
    (ret.done /\ call.fn = "calibrate_threshold") =>
        LET lo == C18_Least(call.samples)
            hi == C18_Greatest(call.samples)
            t  == ret.value
        IN  /\ lo <= t /\ t <= hi
            /\ 10 * (t - lo) <= 7 * (hi - lo)
            /\ 7 * (hi - lo) <= 10 * (t - lo) + 10
            /\ 7 * (hi - lo) = 10 * (t - lo) + 10 => hi > lo

\* a window whose samples span the whole ADC range
C18_Witness ==
    /\ ret.done /\ call.fn = "calibrate_threshold"
    /\ call.samples = <<ADC_MAX, 0, 90>>
    /\ ret.value = 45874

\* C19: over a constant signal c calibrate_threshold returns c.
C19_ConstantSignal ==
    (ret.done /\ call.fn = "calibrate_threshold"
        /\ \A i \in 1..Len(call.samples) : call.samples[i] = call.samples[1])
        => ret.value = call.samples[1]

\* the constant signal 100, 100, 100
C19_Witness ==
    /\ ret.done /\ call.fn = "calibrate_threshold"
    /\ call.samples = <<100, 100, 100>>
    /\ ret.value = 100

\* C20: calculate_bpm returns 0 for no intervals, and otherwise the integer
\* nearest to 60000 / mean(intervals), which is not negative; one interval of
\* 1000 gives 60, three of 500 give 120.
C20_Bpm ==
    (ret.done /\ call.fn = "calculate_bpm") =>
        LET ivs == call.intervals
            bpm == ret.value
            off == bpm * Sum(ivs) - MS_PER_MINUTE * Len(ivs)
        IN  /\ ivs = <<>> => bpm = 0
            /\ ivs # <<>> =>
                  /\ bpm \in Nat
                  /\ 2 * off <= Sum(ivs) /\ -2 * off <= Sum(ivs)
            /\ ivs = <<1000>> => bpm = 60
            /\ ivs = <<500, 500, 500>> => bpm = 120

\* three intervals of 500 ms
C20_Witness ==
    /\ ret.done /\ call.fn = "calculate_bpm"
    /\ call.intervals = <<500, 500, 500>>
    /\ ret.value = 120

\* C21: for fewer than two intervals calculate_hrv returns (0, 0, 0, 0); for two
\* or more accepted intervals mean_hr, mean_ppi, rmssd and sdnn are not negative.
C21_SentinelOrNonNegative ==
    (ret.done /\ call.fn = "calculate_hrv") =>
        /\ Len(call.intervals) < 2 =>
              \A f \in {"mean_hr", "mean_ppi", "rmssd", "sdnn"} : ret.value[f] = IntVal(0)
        /\ Len(call.intervals) >= 2 =>
              \A f \in {"mean_hr", "mean_ppi", "rmssd", "sdnn"} :
                  ret.value[f].num >= 0 /\ ret.value[f].den > 0

\* metrics of a falling and rising sequence of three intervals
C21_Witness ==
    /\ ret.done /\ call.fn = "calculate_hrv"
    /\ call.intervals = <<900, 700, 800>>
    /\ ret.value.rmssd.num > 0

RECURSIVE C22_Squares(_)
C22_Squares(q) == IF q = <<>> THEN 0 ELSE Head(q) * Head(q) + C22_Squares(Tail(q))
RECURSIVE C22_Steps(_)
C22_Steps(q) ==
    IF Len(q) < 2 THEN 0
    ELSE (q[2] - q[1]) * (q[2] - q[1]) + C22_Steps(Tail(q))

\* C22: for N >= 2 intervals mean_ppi = sum / N, mean_hr = 60000 / mean_ppi,
\* (N - 1) x rmssd^2 is the sum of the squared successive differences and
\* (N - 1) x sdnn^2 the sum of the squared deviations from mean_ppi (which is
\* (N x sum of squares - sum^2) / N); [700, 900] gives mean_ppi 800, rmssd 200,
\* sdnn^2 20000, and [800, 800, 800, 800] gives rmssd 0, sdnn 0, mean_hr 75.
C22_ReferenceFormulas ==
    (ret.done /\ call.fn = "calculate_hrv" /\ Len(call.intervals) >= 2) =>
        LET ivs == call.intervals
            N   == Len(ivs)
            v   == ret.value
        IN  /\ v.mean_ppi.k = "ratio"
            /\ v.mean_ppi.num * N = Sum(ivs) * v.mean_ppi.den
            /\ v.mean_hr.k = "ratio"
            /\ v.mean_hr.num * v.mean_ppi.num = MS_PER_MINUTE * v.mean_hr.den * v.mean_ppi.den
            /\ v.rmssd.k = "root"
            /\ (N - 1) * v.rmssd.num = C22_Steps(ivs) * v.rmssd.den
            /\ v.sdnn.k = "root"
            /\ (N - 1) * N * v.sdnn.num = (N * C22_Squares(ivs) - Sum(ivs) * Sum(ivs)) * v.sdnn.den
            /\ ivs = <<700, 900>> =>
                  /\ v.mean_ppi.num = 800 * v.mean_ppi.den
                  /\ v.rmssd.num = 200 * 200 * v.rmssd.den
                  /\ v.sdnn.num = 20000 * v.sdnn.den
            /\ ivs = <<800, 800, 800, 800>> =>
                  /\ v.rmssd.num = 0 /\ v.sdnn.num = 0
                  /\ v.mean_hr.num = 75 * v.mean_hr.den

\* the metrics of [700, 900]
C22_Witness ==
    /\ ret.done /\ call.fn = "calculate_hrv"
    /\ call.intervals = <<700, 900>>
    /\ ret.value.sdnn.num = 20000 * ret.value.sdnn.den

\* the orders of the intervals of q
C23_Permutations(q) ==
    {[i \in 1..Len(q) |-> q[f[i]]] :
        f \in {g \in [1..Len(q) -> 1..Len(q)] : \A i, j \in 1..Len(q) : g[i] = g[j] => i = j}}

C24_Keys == {"timestamp", "mean_hr", "mean_ppi", "rmssd", "sdnn", "sns", "pns"}

C24_IsInt(v) == "t" \in DOMAIN v /\ v.t = "num"

C24_Rounded(entry) ==
    /\ DOMAIN entry = C24_Keys
    /\ \A k \in C24_Keys \ {"timestamp"} : C24_IsInt(entry[k])

C24_StoredRecordsRounded ==
    /\ \A i \in 1..Len(history_file) : C24_Rounded(history_file[i])
    /\ \A i \in 1..Len(hrv_file.records) : C24_Rounded(hrv_file.records[i])

\* C25: one record is handed to the history store per completed session: a
\* cloud cycle hands one, in its Success step, exactly when the wait returned a
\* result, and none when it ended in a validation failure, an exception, a
\* timeout or exit; a local HRV session hands one exactly when it computed the
\* metrics, however many rounds its send loop makes.
C25_CloudCycle ==
    /\ Len(cycle.handed) <= 1
    /\ pc = "unwinding" /\ cycle.returned # None => Len(cycle.handed) = 1
    /\ pc \in {"error_validation", "error_timeout", "error_except"}
          => Len(cycle.handed) = 0
    /\ cycle.returned = None \/ cycle.timeout \/ cycle.exc # "none"
          \/ cycle.choice = "exit"
          => Len(cycle.handed) = 0

C25_HrvSession ==
    /\ Len(hsess.handed) = hsess.computed
    /\ Len(hsess.handed) <= 1
    /\ hpc \in {"wifi", "mqtt", "publish", "send_error", "show"}
          => Len(hsess.handed) = 1
    /\ hpc = "error_feedback" => Len(hsess.handed) = 0
    /\ hpc = "returned"
          => Len(hsess.handed) = (IF TooFew(hsess.intervals) THEN 0 ELSE 1)

C25_OneRecordPerCompletedSession == C25_CloudCycle /\ C25_HrvSession

\* a local session that retried its send has handed one record, after a cloud
\* cycle whose record is in history.json
C25_Witness ==
    /\ hpc = "returned"
    /\ hsess.retries >= 1
    /\ Len(hsess.net) >= 2
    /\ Len(hsess.handed) = 1
    /\ Len(history_file) = 1

\* C26: a local HRV session that collected fewer than 2 accepted intervals
\* shows the error feedback and returns: calculate_hrv is not called, nothing
\* is handed to the history store, no network operation is issued and no
\* second collection starts, whatever show_error_screen returns.
C26_Collected == hsess.collections >= 1 /\ Len(hsess.intervals) < 2

C26_NothingDone ==
    C26_Collected =>
        /\ hpc \in {"validating", "error_feedback", "returned"}
        /\ hsess.collections = 1
        /\ hsess.computed = 0
        /\ hsess.handed = <<>>
        /\ hsess.net = <<>>
        /\ hsess.published = <<>>
        /\ ~hsess.shown
        /\ hpc = "returned" => Len(hsess.feedback) = 1

C26_TooFewEndsSession ==
    /\ []C26_NothingDone
    /\ [][C26_Collected /\ hpc = "validating" => hpc' = "error_feedback"]_vars
    /\ [][hpc = "error_feedback" => hpc' = "returned" /\ hrv_file' = hrv_file
                                     /\ client' = client]_vars

\* the user pressed on the error screen, and the handler returned all the same
C26_Witness ==
    /\ hpc = "returned"
    /\ Len(hsess.intervals) = 1
    /\ hsess.feedback = <<"retry">>

\* C27: when the clock moves on and the user presses the button the program
\* waits for, every cycle of kubios_analysis comes to Success or to the error
\* screen (no step blocks: the collection, the connects and the wait are
\* bounded), and once no retry is chosen any more kubios_analysis returns to
\* its caller.
C27_CycleEnd == pc \in {"success", "error_validation", "error_timeout", "error_except"}

C27_InCycle ==
    pc \in {"await_start", "collecting", "validating", "wifi", "mqtt", "publish", "waiting"}

C28_Newest(q, n) == SubSeq(q, Len(q) - n + 1, Len(q))

C28_HistoryHoldsNewest20 ==
    /\ Len(history_file) <= 20
    /\ history_file = C28_Newest(saved, IF Len(saved) < 20 THEN Len(saved) ELSE 20)

\* two saves on a full history: the two oldest records are gone
C28_Witness ==
    /\ call.fn = "save_to_history"
    /\ Len(saved) = 22
    /\ Len(history_file) = 20
    /\ history_file[1] = saved[3]
    /\ history_file[20] = saved[22]

\* C29: show_error_screen ends after at most 4 countdown steps of 10 polls
\* each; it returns "retry" exactly when one of these polls found the button
\* pressed with the debounce time over, and returns at the first such poll;
\* it returns "exit" when the countdown ended without one.
C29_Bounded ==
    /\ ret.polls <= 40
    /\ ret.shown <= 4
    /\ ret.polls <= 10 * ret.shown
    /\ ~ret.done => ret.pressed_at = {}

C29_Result ==
    ret.done =>
        /\ ret.result \in {"retry", "exit"}
        /\ ret.result = "retry" <=> ret.pressed_at # {}
        /\ ret.result = "retry" => ret.pressed_at = {ret.polls}
        /\ ret.result = "exit" => ret.polls = 40 /\ ret.shown = 4

C29_ErrorScreenEnds ==
    /\ [](C29_Bounded /\ C29_Result)
    /\ [][~ret.done => (ret'.done \/ ret'.polls = ret.polls + 1)]_vars

\* the button was pressed at the last poll of the countdown
C29_Witness ==
    ret.done /\ ret.result = "retry" /\ ret.polls = 40 /\ call.age = 0

\* C30: in the cloud Collecting loop and in the loop of handle_basic_hrv the
\* accepted intervals are exactly the plausible gaps between consecutive beat
\* timestamps, in order: every beat is appended to the buffer whether or not
\* its gap is accepted, so the next gap is measured from it; a rejected gap
\* leaves the loop running with the intervals as they were; and there are
\* never more intervals than beats minus one.
C30_Loop == path \in {"kubios", "hrv"} /\ apc = "sampling"

C30_BeatFires ==
    /\ C30_Loop
    /\ nsamples' = nsamples + 1
    /\ IF path = "kubios" THEN last_value < threshold /\ value' >= threshold
                          ELSE beat'

C30_Gap(bt, j) == ticks_diff(bt[j], bt[j - 1])

C30_GapsOfConsecutiveBeats ==
    path \in {"kubios", "hrv"} =>
        /\ intervals = MeasureResult(beat_times)
        /\ beat_times = <<>> => intervals = <<>>
        /\ beat_times # <<>> => Len(intervals) <= Len(beat_times) - 1

C30_EveryBeatIsAReference ==
    /\ []C30_GapsOfConsecutiveBeats
    /\ [][C30_BeatFires =>
            /\ beat_times' = Append(beat_times, ticks)
            /\ apc' = "sampling" /\ path' = path
            /\ Len(beat_times) >= 1 =>
                 LET gap == ticks_diff(ticks, beat_times[Len(beat_times)])
                 IN  intervals' = IF 250 < gap /\ gap < 2000
                                  THEN Append(intervals, gap) ELSE intervals]_vars
    /\ [][C30_Loop /\ ~C30_BeatFires =>
            beat_times' = beat_times /\ intervals' = intervals]_vars

\* a beat whose gap was rejected was the reference of the next, accepted gap
C30_Witness ==
    /\ path = "hrv"
    /\ Len(beat_times) = 3
    /\ ~Plausible(C30_Gap(beat_times, 2))
    /\ intervals = <<C30_Gap(beat_times, 3)>>

\* C31: with on_message running at any point of the poll loop, the slot
\* kubios_result holds None or a result with the six keys in which mean_hr,
\* mean_ppi, rmssd and sdnn are not None, and in which sns (pns) is 0 when the
\* response had no sns_index (pns_index); the value the reader tests and the
\* value it returns are such values too.
C31_Complete(v) ==
    /\ DOMAIN v = {"mean_hr", "mean_ppi", "rmssd", "sdnn", "sns", "pns"}
    /\ \A k \in {"mean_hr", "mean_ppi", "rmssd", "sdnn"} : v[k] # None

C31_Analysis(m) == m.v.f["data"].f["analysis"]

C31_SlotNoneOrComplete ==
    /\ \A v \in {kubios_result, ret.seen, ret.returned} : v = None \/ C31_Complete(v)
    /\ kubios_result # None =>
          /\ ~Has(C31_Analysis(ret.source), "sns_index") => kubios_result.sns = Num(0)
          /\ ~Has(C31_Analysis(ret.source), "pns_index") => kubios_result.pns = Num(0)

\* the reader returned the result of a response that had neither index
C31_Witness ==
    /\ ret.at = "returned"
    /\ ret.returned # None
    /\ ret.returned = kubios_result
    /\ ret.source = MsgNoIdx
    /\ kubios_result.sns = Num(0)

\* C32: an iteration of handle_measure_hr or handle_basic_hrv in which
\* read_sample() returned None is completed like any other (the loop goes on
\* to its next iteration), reports the value 0 and no beat, and leaves the
\* beat timestamps and the accepted intervals as they were.
C32_Tick ==
    /\ path \in {"hr", "hrv"} /\ apc = "sampling"
    /\ nsamples' = nsamples + 1

C32_NoSampleTickChangesNothing ==
    [][C32_Tick /\ ~sampled' =>
         /\ value' = 0 /\ ~beat'
         /\ beat_times' = beat_times
         /\ intervals' = intervals
         /\ apc' = "sampling" /\ path' = path]_vars

\* a tick without a sample between two beats
C32_Witness ==
    /\ path = "hr" /\ apc = "sampling"
    /\ ~sampled
    /\ Len(beat_times) = 1
    /\ nsamples >= 2

\* C33: the buffer of beat timestamps never holds more than 20 entries, in
\* measure_intervals, handle_measure_hr, handle_basic_hrv and the cloud
\* Collecting loop.
C33_BeatBufferCapped == Len(beat_times) <= 20

\* ... which holds in measure_intervals, the one loop that pops the oldest entry
C33_MeasureWindowCapped == path = "measure" => Len(beat_times) <= 20

\* C34: when the cloud Collecting loop begins, its window starts at the time
\* the calibration ended, as the window of handle_basic_hrv does: no part of
\* the 30 s has passed before the first reading.
C34_StartAfterCalibration ==
    path \in {"kubios", "hrv"} /\ apc = "sampling" /\ nsamples = 0
        => ticks_diff(ticks, start_time) = 0

\* ... which holds in handle_basic_hrv
C34_HrvStartAfterCalibration ==
    path = "hrv" /\ apc = "sampling" /\ nsamples = 0 => ticks_diff(ticks, start_time) = 0

\* C35: on a non-empty list of accepted intervals (each above 250 and below
\* 2000) calculate_bpm returns an integer from 30 to 240; so what
\* handle_measure_hr shows, calculate_bpm of the last 5 intervals during the
\* loop and of all of them at its end, is 0 or from 30 to 240.
C35_Accepted(ivs) == \A i \in 1..Len(ivs) : 250 < ivs[i] /\ ivs[i] < 2000

\* intervals[-n:]
C35_Last(ivs, n) == IF Len(ivs) <= n THEN ivs ELSE SubSeq(ivs, Len(ivs) - n + 1, Len(ivs))

C35_BpmInRange ==
    (ret.done /\ call.fn = "calculate_bpm" /\ C35_Accepted(call.intervals)) =>
        /\ call.intervals # <<>> => ret.value \in 30..240
        /\ ret.value \in {0} \cup 30..240
        /\ \A n \in 0..5 :
              calculate_bpm(C35_Last(call.intervals, n)) \in {0} \cup 30..240

\* the longest accepted gap, three times
C35_Witness ==
    /\ ret.done /\ call.fn = "calculate_bpm"
    /\ call.intervals = <<1999, 1999, 1999>>
    /\ ret.value = 30

\* ... and in the loop of handle_measure_hr on a regular pulse
C35_ShownBpmInRange ==
    path = "hr" =>
        /\ calculate_bpm(C35_Last(intervals, 5)) \in {0} \cup 30..240
        /\ calculate_bpm(intervals) \in {0} \cup 30..240

\* C36: in handle_basic_hrv a retry after a failed send goes back to the Wi-Fi
\* connect and leaves the intervals, the metrics and the stored file as they
\* are; the rounds of the send loop are Wi-Fi connect, MQTT connect and publish
\* in this order, every publish carries the data computed once, and a session
\* with a retry has one collection, one computation and one stored record.
C36_SendRounds ==
    \A i \in 1..Len(hsess.net) :
        /\ hsess.net[i] \in {"wifi", "mqtt", "publish"}
        /\ hsess.net[i] = "wifi" => (i = 1 \/ hsess.net[i - 1] \in {"wifi", "publish"})
        /\ hsess.net[i] = "mqtt" => (i > 1 /\ hsess.net[i - 1] = "wifi")
        /\ hsess.net[i] = "publish" => (i > 1 /\ hsess.net[i - 1] = "mqtt")

C36_ComputedOnce ==
    hsess.retries >= 1 =>
        /\ hsess.collections = 1
        /\ hsess.computed = 1
        /\ Len(hsess.handed) = 1
        /\ hsess.data = hsess.handed[1].entry
        /\ \A i \in 1..Len(hsess.published) : hsess.published[i] = hsess.data

C36_RetryResendsOnly ==
    /\ [](C36_SendRounds /\ C36_ComputedOnce)
    /\ [][hpc = "send_error" /\ hpc' # "returned" =>
            /\ hpc' = "wifi"
            /\ hsess'.retries = hsess.retries + 1
            /\ hsess'.intervals = hsess.intervals
            /\ hsess'.data = hsess.data
            /\ hsess'.collections = hsess.collections
            /\ hsess'.computed = hsess.computed
            /\ hsess'.handed = hsess.handed
            /\ hrv_file' = hrv_file]_vars

\* the publish failed, the user chose retry, and the second publish went through
C36_Witness ==
    /\ hpc = "show"
    /\ hsess.retries = 1
    /\ hsess.net = <<"wifi", "mqtt", "publish", "wifi", "mqtt", "publish">>
    /\ hsess.published = <<hsess.data, hsess.data>>

\* C37: handle_basic_hrv shows the results screen only at the end of a round of
\* its send loop in which the Wi-Fi link was up, MQTT connect was called and
\* the publish of the computed data returned without an exception (no error
\* screen in that round); when the error screen of a failed round returns
\* "exit" the handler returns with the results never shown, after the one call
\* of append_to_hrv_history with these metrics.
C37_Rounds == Cardinality({i \in 1..Len(hsess.net) : hsess.net[i] = "wifi"})

C37_ShownAfterPublish ==
    (hpc = "show" \/ hsess.shown) =>
        /\ Len(hsess.net) >= 3
        /\ SubSeq(hsess.net, Len(hsess.net) - 2, Len(hsess.net)) = <<"wifi", "mqtt", "publish">>
        /\ hsess.published # <<>>
        /\ hsess.published[Len(hsess.published)] = hsess.data
        /\ client \in {"connected", "subscribed"}
        /\ Len(hsess.feedback) = C37_Rounds - 1
        /\ \A i \in 1..Len(hsess.feedback) : hsess.feedback[i] = "retry"

C37_ExitShowsNothing ==
    (hpc = "returned" /\ hsess.feedback # <<>>
        /\ hsess.feedback[Len(hsess.feedback)] = "exit") =>
        /\ ~hsess.shown
        /\ Len(hsess.feedback) = C37_Rounds \/ Len(hsess.intervals) < 2
        /\ Len(hsess.intervals) >= 2 =>
              /\ Len(hsess.handed) = 1
              /\ hsess.handed[1].entry = hsess.data
              /\ hsess.handed[1].stored =>
                    hrv_file.records[Len(hrv_file.records)] = hsess.data

C38_ConnectMqtt ==
    (ret.done /\ call.fn = "connect_mqtt") =>
        LET outs == call.outs IN
        /\ ret.raised = "none"
        /\ ret.attempts \in 1..MAX_MQTT_RETRIES
        /\ ret.value \in BOOLEAN
        /\ ret.value <=> \E i \in 1..MAX_MQTT_RETRIES : outs[i] = "ok"
        /\ ret.value =>
              /\ outs[ret.attempts] = "ok"
              /\ \A j \in 1..(ret.attempts - 1) : outs[j] # "ok"
              /\ ret.client = "subscribed"
        /\ ~ret.value =>
              /\ ret.attempts = MAX_MQTT_RETRIES
              /\ ret.client # "subscribed"

\* every attempt failed, each at the subscription
C38_Witness ==
    /\ ret.done /\ call.fn = "connect_mqtt"
    /\ \A i \in 1..MAX_MQTT_RETRIES : call.outs[i] = "subscribe_raises"
    /\ ~ret.value
    /\ ret.attempts = MAX_MQTT_RETRIES

\* C39: after a detail screen of the history view one choice is asked for and
\* it decides: while a back menu is shown no choice has been made since the
\* detail screen, BACK TO HISTORY leads to the list and BACK TO MAIN makes
\* handle_history return.
C39_BackChoiceDecides ==
    (call.fn = "handle_history" /\ ret.details = 1) =>
        /\ Len(ret.choices) <= 1
        /\ ret.at \in {"detail", "detail_menu", "back_menu"} => ret.choices = <<>>
        /\ ret.choices = <<"BACK TO MAIN">> => ret.at = "returned"
        /\ ret.choices = <<"BACK TO HISTORY">> => ret.at = "list"
        /\ ret.at = "returned" => ret.choices = <<"BACK TO MAIN">>

============================================================================
